---------------------------- MODULE Spec2Model ----------------------------
(***************************************************************************)
(* A model of the Cloud Pipelines backend: the graph compiler              *)
(* (api_server_sql.py) and the orchestrator sweeps (orchestrator_sql.py).  *)
(*                                                                         *)
(* Conventions                                                             *)
(*   - row ids are positions in the table sequences (1-based); a NULL      *)
(*     foreign key is 0, a NULL string column is None, a NULL status is    *)
(*     NoStatus;                                                           *)
(*   - a Python dict whose iteration order matters is a sequence of        *)
(*     <<key, value>> pairs in insertion order; a dict that is only looked *)
(*     up is a TLA+ function;                                              *)
(*   - a str value is the sequence of its code points.                     *)
(***************************************************************************)
EXTENDS Integers, Sequences, FiniteSets, TLC

VARIABLES
    execution_nodes,        \* table ExecutionNode
    artifact_nodes,         \* table ArtifactNode
    artifact_data,          \* table ArtifactData
    input_links,            \* table InputArtifactLink
    output_links,           \* table OutputArtifactLink
    ancestor_links,         \* table ExecutionToAncestorExecutionLink
    pipeline_runs,          \* table PipelineRun
    container_executions,   \* table ContainerExecution
    containers,             \* the launcher's side: the real status of each launched container
    last_op,                \* what the last operation was and what it answered
    trail,                  \* what was committed before and at each commit of the last operation
    ts_in,                  \* input of _toposort_tasks (pure-function specification)
    ts_out,                 \* its result
    ck_in,                  \* inputs of _calculate_container_execution_cache_key
    ck_out,                 \* its results
    call_in,                \* arguments of the call under study (single-function specifications)
    call_out,               \* what the call returned or raised
    sweep_log,              \* the in-flight sweeps made (aging specification)
    api_out,                \* the answer of the last read of ExecutionNodesApiService_Sql
    launch_calls,           \* for each node, what each call of launch_container_task for it did
    left_queued,            \* the nodes that a commit has moved from QUEUED to another status
    admin_writes,           \* the number of writes of the admin status route made
    sweep                   \* the call of a queue handler in progress on the orchestrator thread, and where it is

dbvars == <<execution_nodes, artifact_nodes, artifact_data, input_links,
            output_links, ancestor_links, pipeline_runs, container_executions>>
purevars == <<ts_in, ts_out, ck_in, ck_out, call_in, call_out>>
auxvars == <<purevars, sweep_log, api_out, launch_calls, left_queued, sweep,
            admin_writes>>
vars == <<dbvars, containers, last_op, trail, auxvars>>

-----------------------------------------------------------------------------
(* Bounds of the model *)

\* the admin status route is called at most this many times
MaxAdminWrites == 2
\* the stops of the orchestrator between a launch and its commit
MaxLostContainers == 1
\* a create() that would leave more than this many PipelineRun rows is not made
MaxRuns == 1
\* a create() that would leave more than this many ExecutionNode rows is not made
MaxExecs == 5
\* the task maps given to _toposort_tasks have at most this many tasks
MaxTasks == 3
\* the aging specification records at most this many in-flight sweeps
MaxSweeps == 6

-----------------------------------------------------------------------------
(* Generic helpers *)

None == "<None>"
NoStatus == "NONE"

\* F applied to a value that is computed once
Bind(x, F(_)) == F(x)
\* a function on 1..n as a sequence value that is built at once
AsSeq(f) == <<>> \o f

Last(s) == s[Len(s)]
Range(s) == {s[i] : i \in 1..Len(s)}

\* dict.get(k) on a dict of row ids: 0 when absent
Get(f, k) == IF k \in DOMAIN f THEN f[k] ELSE 0
\* d[k] = v on a dict modelled as a function
Put(f, k, v) == [x \in (DOMAIN f) \cup {k} |-> IF x = k THEN v ELSE f[x]]
EmptyDict == [x \in {} |-> 0]

\* ordered dict helpers (sequence of <<key, value>>)
Keys(od) == {od[i][1] : i \in 1..Len(od)}
HasKey(od, k) == \E i \in 1..Len(od) : od[i][1] = k
Lookup(od, k) == od[CHOOSE i \in 1..Len(od) : od[i][1] = k /\ \A j \in (i+1)..Len(od) : od[j][1] # k][2]

-----------------------------------------------------------------------------
(* TaskSpec documents (component_structures): their JSON form *)

\* ArgumentSource: a constant string, a GraphInputArgument or a TaskOutputArgument
ConstantArgument(v) == [kind |-> "const", task_id |-> None, name |-> None, value |-> v]
GraphInputArgument(n) == [kind |-> "graph_input", task_id |-> None, name |-> n, value |-> <<>>]
TaskOutputArgument(t, o) == [kind |-> "task_output", task_id |-> t, name |-> o, value |-> <<>>]

\* InputSpec(name, optional, default); default is None or a str
InputSpec(n, opt, def) == [name |-> n, optional |-> opt, default |-> def]

\* the `container` of a component that is not a container
NoContainerSpec == [image |-> "", command |-> <<>>, env |-> <<>>]
\* ComponentSpec with a ContainerImplementation
ContainerComponent(cs, ins, outs) ==
    [implementation |-> "container", container |-> cs, inputs |-> ins, outputs |-> outs,
     tasks |-> <<>>, output_values |-> <<>>]
\* ComponentSpec with a GraphImplementation
GraphComponent(ins, tasks, output_values) ==
    [implementation |-> "graph", container |-> NoContainerSpec, inputs |-> ins, outputs |-> <<>>,
     tasks |-> tasks, output_values |-> output_values]
\* TaskSpec(component_ref.spec, arguments, annotations)
TaskSpec(comp, args) == [component |-> comp, arguments |-> args]

-----------------------------------------------------------------------------
(* _toposort_tasks (api_server_sql.py 822-878) *)

AppendNew(s, x) == IF x \in Range(s) THEN s ELSE Append(s, x)

\* the `dependencies` dict of one task: the task ids its TaskOutputArguments name,
\* in first-occurrence order (lines 829-834)
RECURSIVE dependencies_of(_, _)
dependencies_of(arguments, i) ==
    IF i = 0 THEN <<>>
    ELSE LET prev == dependencies_of(arguments, i - 1)
             argument == arguments[i][2]
         IN IF argument.kind = "task_output" THEN AppendNew(prev, argument.task_id) ELSE prev

\* task_dependencies (lines 826-840), as a function task_id -> ordered dependencies
task_dependencies(tasks) ==
    [k \in Keys(tasks) |-> LET a == Lookup(tasks, k).arguments IN dependencies_of(a, Len(a))]

\* line 835: some TaskOutputArgument references a task id that is not in `tasks`
references_non_existing_task(tasks) ==
    \E k \in Keys(tasks) : \E d \in Range(task_dependencies(tasks)[k]) : d \notin Keys(tasks)

\* task_dependents (lines 843-846): for each task the tasks that depend on it, in
\* the iteration order of `tasks`
RECURSIVE dependents_of(_, _, _, _)
dependents_of(tasks, deps, k, i) ==
    IF i = 0 THEN <<>>
    ELSE LET prev == dependents_of(tasks, deps, k, i - 1)
             task_id == tasks[i][1]
         IN IF k \in Range(deps[task_id]) THEN AppendNew(prev, task_id) ELSE prev

task_dependents(tasks) ==
    LET deps == task_dependencies(tasks)
    IN [k \in Keys(tasks) |-> dependents_of(tasks, deps, k, Len(tasks))]

\* process_task (lines 852-860); st = [remaining, sorted]
RECURSIVE process_task(_, _, _)
RECURSIVE process_dependents(_, _, _, _)
process_task(st, dependents, task_id) ==
    IF st.remaining[task_id] = 0 /\ task_id \notin Range(st.sorted)
    THEN process_dependents([st EXCEPT !.sorted = Append(@, task_id)],
                            dependents, dependents[task_id], 1)
    ELSE st
process_dependents(st, dependents, ds, i) ==
    IF i > Len(ds) THEN st
    ELSE LET st1 == [st EXCEPT !.remaining[ds[i]] = @ - 1]
         IN process_dependents(process_task(st1, dependents, ds[i]), dependents, ds, i + 1)

process_all_tasks_as_listed(st, dependents, tasks, i) ==
    [st EXCEPT !.sorted = [j \in 1..Len(tasks) |-> tasks[j][1]]]
\* the loop of lines 862-863
RECURSIVE process_all_tasks(_, _, _, _)
process_all_tasks(st, dependents, tasks, i) ==
    IF i > Len(tasks) THEN st
    ELSE process_all_tasks(process_task(st, dependents, tasks[i][1]), dependents, tasks, i + 1)

\* lines 865-871: min() returns the first task, in iteration order, among those with
\* the fewest (but more than zero) remaining dependencies
task_with_minimal_number_of_unsatisfied_dependencies(tasks, remaining) ==
    LET unsat == {i \in 1..Len(tasks) : remaining[tasks[i][1]] > 0}
        best == CHOOSE i \in unsat :
                    \A j \in unsat : \/ remaining[tasks[j][1]] > remaining[tasks[i][1]]
                                     \/ (remaining[tasks[j][1]] = remaining[tasks[i][1]] /\ i <= j)
    IN tasks[best][1]

sorting_incomplete_never(st, tasks) == FALSE
\* the check of line 864
sorting_incomplete(st, tasks) == Len(st.sorted) # Cardinality(Keys(tasks))

\* _toposort_tasks: error is "none", "TypeError" (line 836) or "ValueError" (line 872);
\* sorted is the order of the returned dict
toposort_tasks(tasks) ==
    IF references_non_existing_task(tasks)
    THEN [error |-> "TypeError", sorted |-> <<>>, culprit |-> None]
    ELSE LET deps == task_dependencies(tasks)
             st0 == [remaining |-> [k \in Keys(tasks) |-> Len(deps[k])], sorted |-> <<>>]
             st == process_all_tasks(st0, task_dependents(tasks), tasks, 1)
         IN IF sorting_incomplete(st, tasks)
            THEN [error |-> "ValueError", sorted |-> st.sorted,
                  culprit |-> task_with_minimal_number_of_unsatisfied_dependencies(tasks, st.remaining)]
            ELSE [error |-> "none", sorted |-> st.sorted, culprit |-> None]

-----------------------------------------------------------------------------
(* The database, as one record of tables (a session works on such a record and
   commits it or rolls it back) *)

EmptyDb ==
    [execution_nodes |-> <<>>, artifact_nodes |-> <<>>, artifact_data |-> <<>>,
     input_links |-> {}, output_links |-> {}, ancestor_links |-> {},
     pipeline_runs |-> <<>>, container_executions |-> <<>>]

\* a nullable str column: NoneStr, or Some(s) for the str s (so that "" is not NULL)
NoneStr == <<>>
Some(s) == <<s>>
\* a NULL uri, a NULL cache key
NoUri == <<>>
NoKey == <<>>

\* bytes of the UTF-8 encoding of a str (code points below 65536)
Utf8Char(c) ==
    IF c < 128 THEN <<c>>
    ELSE IF c < 2048 THEN <<192 + (c \div 64), 128 + (c % 64)>>
    ELSE <<224 + (c \div 4096), 128 + ((c \div 64) % 64), 128 + (c % 64)>>
RECURSIVE Utf8(_)
Utf8(s) == IF s = <<>> THEN <<>> ELSE Utf8Char(Head(s)) \o Utf8(Tail(s))

\* _calculate_hash (api_server_sql.py 145-148, orchestrator_sql.py 607-610): "md5=" and
\* the digest of the UTF-8 bytes; the digest is kept symbolic (the bytes digested)
calculate_hash(s) == <<"md5=", Utf8(s)>>

\* _construct_constant_artifact_data (177-187)
construct_constant_artifact_data(value) ==
    [total_size |-> Len(value), is_dir |-> FALSE, hash |-> calculate_hash(value),
     value |-> Some(value), uri |-> NoUri]

construct_constant_artifact_node_without_flag(d, value) ==
    LET d1 == [d EXCEPT !.artifact_data = Append(@, construct_constant_artifact_data(value))]
    IN [d1 EXCEPT !.artifact_nodes =
            Append(@, [producer_execution_id |-> 0, producer_output_name |-> None,
                       artifact_data_id |-> Len(d1.artifact_data), had_data_in_past |-> FALSE])]
\* _construct_constant_artifact_node (190-201) with the rows it adds; the new
\* ArtifactNode is the last row of the result
construct_constant_artifact_node(d, value) ==
    LET d1 == [d EXCEPT !.artifact_data = Append(@, construct_constant_artifact_data(value))]
    IN [d1 EXCEPT !.artifact_nodes =
            Append(@, [producer_execution_id |-> 0, producer_output_name |-> None,
                       artifact_data_id |-> Len(d1.artifact_data), had_data_in_past |-> TRUE])]

\* `if input_spec.default:` (line 640): None and "" are both false
default_is_truthy(default) == default # NoneStr /\ default[1] # <<>>

\* OutputArtifactLinks of an execution as a dict output_name -> artifact id
output_artifacts_of(d, id) ==
    LET links == {l \in d.output_links : l.execution_id = id}
    IN [n \in {l.output_name : l \in links} |->
            (CHOOSE l \in links : l.output_name = n).artifact_id]
input_artifacts_of(d, id) ==
    LET links == {l \in d.input_links : l.execution_id = id}
    IN [n \in {l.input_name : l \in links} |->
            (CHOOSE l \in links : l.input_name = n).artifact_id]

-----------------------------------------------------------------------------
(* _recursively_create_all_executions_and_artifacts (api_server_sql.py 603-819).
   Every step returns [db, ..., error]; error # "none" is a raised exception and db
   then holds the rows the session had added before the raise. *)

\* lines 637-672: the loop over the component's inputs
RECURSIVE resolve_inputs(_, _, _, _, _)
resolve_inputs(d, exec_id, inputs, i, ins) ==
    IF i > Len(inputs) THEN [db |-> d, ins |-> ins, error |-> "none"]
    ELSE
      LET input_spec == inputs[i]
          given == Get(ins, input_spec.name)
          needs_default == given = 0 /\ ~input_spec.optional
          d1 == IF needs_default /\ default_is_truthy(input_spec.default)
                THEN construct_constant_artifact_node(d, input_spec.default[1]) ELSE d
          node == IF needs_default /\ default_is_truthy(input_spec.default)
                  THEN Len(d1.artifact_nodes) ELSE given
          ins1 == IF node # 0 THEN Put(ins, input_spec.name, node) ELSE ins
          d2 == IF node # 0
                THEN [d1 EXCEPT !.input_links = @ \cup
                        {[execution_id |-> exec_id, input_name |-> input_spec.name,
                          artifact_id |-> node]}]
                ELSE d1
      IN IF needs_default /\ ~default_is_truthy(input_spec.default)
         THEN [db |-> d, ins |-> ins, error |-> "ApiServiceError"]
         ELSE resolve_inputs(d2, exec_id, inputs, i + 1, ins1)

\* lines 675-691: one output ArtifactNode and OutputArtifactLink per declared output
RECURSIVE create_output_artifacts(_, _, _, _)
create_output_artifacts(d, exec_id, outputs, i) ==
    IF i > Len(outputs) THEN d
    ELSE
      LET d1 == [d EXCEPT !.artifact_nodes =
                    Append(@, [producer_execution_id |-> exec_id,
                               producer_output_name |-> outputs[i],
                               artifact_data_id |-> 0, had_data_in_past |-> FALSE])]
          d2 == [d1 EXCEPT !.output_links = @ \cup
                    {[execution_id |-> exec_id, output_name |-> outputs[i],
                      artifact_id |-> Len(d1.artifact_nodes)]}]
      IN create_output_artifacts(d2, exec_id, outputs, i + 1)

initial_status_queued(d, ins) == "QUEUED"
\* lines 701-708: QUEUED when every input artifact has data
initial_status(d, ins) ==
    IF \A n \in DOMAIN ins : d.artifact_nodes[ins[n]].artifact_data_id # 0
    THEN "QUEUED" ELSE "WAITING_FOR_UPSTREAM"

\* lines 732-781: the input artifacts of one child task
RECURSIVE child_task_input_artifact_nodes(_, _, _, _, _, _, _)
child_task_input_artifact_nodes(d, child_task, inputs, i, graph_ins, task_outputs, acc) ==
    IF i > Len(inputs) THEN [db |-> d, ins |-> acc, error |-> "none"]
    ELSE
      LET input_spec == inputs[i]
          has_argument == HasKey(child_task.arguments, input_spec.name)
          use_default == ~has_argument /\ ~input_spec.optional
          argument == IF has_argument THEN Lookup(child_task.arguments, input_spec.name)
                      ELSE ConstantArgument(input_spec.default[1])
          no_argument == ~has_argument /\ ~use_default
          is_const == ~no_argument /\ argument.kind = "const"
          d1 == IF is_const THEN construct_constant_artifact_node(d, argument.value) ELSE d
          node == IF no_argument THEN 0
                  ELSE IF argument.kind = "graph_input" THEN Get(graph_ins, argument.name)
                  ELSE IF argument.kind = "task_output"
                       THEN task_outputs[argument.task_id][argument.name]
                  ELSE Len(d1.artifact_nodes)
          acc1 == IF node # 0 THEN Put(acc, input_spec.name, node) ELSE acc
      IN IF use_default /\ input_spec.default = NoneStr
         THEN [db |-> d, ins |-> acc, error |-> "ApiServiceError"]
         ELSE IF ~no_argument /\ argument.kind = "task_output"
                 /\ argument.name \notin DOMAIN task_outputs[argument.task_id]
         THEN [db |-> d, ins |-> acc, error |-> "KeyError"]
         ELSE IF ~no_argument /\ argument.kind \notin {"const", "graph_input", "task_output"}
         THEN [db |-> d, ins |-> acc, error |-> "ApiServiceError"]
         ELSE child_task_input_artifact_nodes(d1, child_task, inputs, i + 1,
                                              graph_ins, task_outputs, acc1)

\* lines 800-814: the graph's own outputs re-link the artifacts of its children
RECURSIVE link_graph_outputs(_, _, _, _, _)
link_graph_outputs(d, exec_id, output_values, i, task_outputs) ==
    IF i > Len(output_values) THEN [db |-> d, error |-> "none"]
    ELSE
      LET output_name == output_values[i][1]
          source == output_values[i][2]
      IN IF source.kind # "task_output" THEN [db |-> d, error |-> "ApiServiceError"]
         ELSE IF \/ source.task_id \notin DOMAIN task_outputs
                 \/ source.name \notin DOMAIN task_outputs[source.task_id]
         THEN [db |-> d, error |-> "KeyError"]
         ELSE link_graph_outputs(
                [d EXCEPT !.output_links = @ \cup
                    {[execution_id |-> exec_id, output_name |-> output_name,
                      artifact_id |-> task_outputs[source.task_id][source.name]]}],
                exec_id, output_values, i + 1, task_outputs)

RECURSIVE recursively_create_all_executions_and_artifacts(_, _, _, _)
RECURSIVE create_child_executions(_, _, _, _, _, _, _, _)

\* lines 725-797: the loop over the sorted child tasks
create_child_executions(d, graph_id, ancestors, tasks, order, i, graph_ins, task_outputs) ==
    IF i > Len(order) THEN [db |-> d, task_outputs |-> task_outputs, error |-> "none"]
    ELSE
      LET child_task_id == order[i]
          child_task_spec == Lookup(tasks, child_task_id)
      IN Bind(child_task_input_artifact_nodes(d, child_task_spec,
                  child_task_spec.component.inputs, 1, graph_ins, task_outputs, EmptyDict),
           LAMBDA r1 :
             IF r1.error # "none"
             THEN [db |-> r1.db, task_outputs |-> task_outputs, error |-> r1.error]
             ELSE Bind(recursively_create_all_executions_and_artifacts(
                           r1.db, child_task_spec, r1.ins, Append(ancestors, graph_id)),
                    LAMBDA r2 :
                      IF r2.error # "none"
                      THEN [db |-> r2.db, task_outputs |-> task_outputs, error |-> r2.error]
                      ELSE Bind([r2.db EXCEPT
                                   !.execution_nodes[r2.id].parent_execution_id = graph_id,
                                   !.execution_nodes[r2.id].task_id_in_parent_execution =
                                        child_task_id],
                             LAMBDA d3 :
                               create_child_executions(d3, graph_id, ancestors, tasks, order,
                                   i + 1, graph_ins,
                                   Put(task_outputs, child_task_id,
                                       output_artifacts_of(d3, r2.id))))))

recursively_create_all_executions_and_artifacts(d, task_spec, input_artifact_nodes, ancestors) ==
    LET component_spec == task_spec.component
        implementation == component_spec.implementation
        id == Len(d.execution_nodes) + 1
        \* lines 621-631
        d1 == [d EXCEPT
                 !.execution_nodes = Append(@,
                    [task_spec |-> task_spec, parent_execution_id |-> 0,
                     task_id_in_parent_execution |-> None, container_execution_id |-> 0,
                     container_execution_cache_key |-> NoKey,
                     container_execution_status |-> NoStatus]),
                 !.ancestor_links = @ \cup {<<id, ancestors[k]>> : k \in 1..Len(ancestors)}]
    IN IF implementation = "none" THEN [db |-> d, id |-> 0, error |-> "ApiServiceError"]
       ELSE Bind(resolve_inputs(d1, id, component_spec.inputs, 1, input_artifact_nodes),
         LAMBDA r2 :
           IF r2.error # "none" THEN [db |-> r2.db, id |-> id, error |-> r2.error]
           ELSE IF implementation = "container" THEN
                Bind(create_output_artifacts(r2.db, id, component_spec.outputs, 1),
                  LAMBDA d3 :
                    [db |-> [d3 EXCEPT !.execution_nodes[id].container_execution_status =
                                            initial_status(d3, r2.ins)],
                     id |-> id, error |-> "none"])
           ELSE IF implementation = "graph" THEN
                Bind(toposort_tasks(component_spec.tasks),
                  LAMBDA sorted :
                    IF sorted.error # "none"
                    THEN [db |-> r2.db, id |-> id, error |-> sorted.error]
                    ELSE Bind(create_child_executions(r2.db, id, ancestors,
                                  component_spec.tasks, sorted.sorted, 1, r2.ins, EmptyDict),
                           LAMBDA r3 :
                             IF r3.error # "none"
                             THEN [db |-> r3.db, id |-> id, error |-> r3.error]
                             ELSE Bind(link_graph_outputs(r3.db, id,
                                           component_spec.output_values, 1, r3.task_outputs),
                                    LAMBDA r4 : [db |-> r4.db, id |-> id, error |-> r4.error])))
           ELSE [db |-> r2.db, id |-> id, error |-> "ApiServiceError"])

\* lines 560-589 of _recursively_create_all_executions_and_artifacts_root: the root
\* task's arguments, which may only be constant strings
RECURSIVE root_input_artifact_nodes(_, _, _, _)
root_input_artifact_nodes(d, root_task_spec, i, acc) ==
    IF i > Len(root_task_spec.arguments) THEN [db |-> d, ins |-> acc, error |-> "none"]
    ELSE
      LET input_name == root_task_spec.arguments[i][1]
          input_argument == root_task_spec.arguments[i][2]
          declared == \E k \in 1..Len(root_task_spec.component.inputs) :
                          root_task_spec.component.inputs[k].name = input_name
          d1 == construct_constant_artifact_node(d, input_argument.value)
      IN IF ~declared \/ input_argument.kind # "const"
         THEN [db |-> d, ins |-> acc, error |-> "ApiServiceError"]
         ELSE root_input_artifact_nodes(d1, root_task_spec, i + 1,
                                        Put(acc, input_name, Len(d1.artifact_nodes)))

\* _recursively_create_all_executions_and_artifacts_root (546-600)
recursively_create_all_executions_and_artifacts_root(d, root_task_spec) ==
    Bind(root_input_artifact_nodes(d, root_task_spec, 1, EmptyDict),
      LAMBDA r1 :
        IF r1.error # "none" THEN [db |-> r1.db, id |-> 0, error |-> r1.error]
        ELSE recursively_create_all_executions_and_artifacts(r1.db, root_task_spec, r1.ins, <<>>))

\* create without the enclosing transaction: the rows added before the raise stay
create_without_rollback(d, root_task) ==
    Bind(recursively_create_all_executions_and_artifacts_root(d, root_task),
      LAMBDA r :
        IF r.error # "none"
        THEN [db |-> r.db, error |-> r.error, id |-> 0]
        ELSE [db |-> [r.db EXCEPT !.pipeline_runs = Append(@, [root_execution_id |-> r.id])],
              error |-> "none", id |-> Len(d.pipeline_runs) + 1])

\* PipelineRunsApiService_Sql.create (66-100): the whole compilation runs in one
\* transaction (`with session.begin()`); an exception rolls it back
create(d, root_task) ==
    Bind(recursively_create_all_executions_and_artifacts_root(d, root_task),
      LAMBDA r :
        IF r.error # "none"
        THEN [db |-> d, error |-> r.error, id |-> 0]
        ELSE [db |-> [r.db EXCEPT !.pipeline_runs = Append(@, [root_execution_id |-> r.id])],
              error |-> "none", id |-> Len(d.pipeline_runs) + 1])

-----------------------------------------------------------------------------
(* The submitted documents the model draws from *)

Str42 == <<52, 50>>
Str05 == <<48, 46, 53>>
\* "5€": one ASCII character and one character of three UTF-8 bytes
Str5Euro == <<53, 8364>>

ContainerSpec(image) == [image |-> image, command |-> <<"run">>, env |-> <<>>]

Producer == ContainerComponent(ContainerSpec("producer"), <<>>, <<"out">>)
Consumer == ContainerComponent(ContainerSpec("consumer"),
                               <<InputSpec("in", FALSE, NoneStr)>>, <<"out">>)
Joiner == ContainerComponent(ContainerSpec("joiner"),
                             <<InputSpec("in1", FALSE, NoneStr), InputSpec("in2", FALSE, NoneStr)>>,
                             <<"out">>)
WithDefault == ContainerComponent(ContainerSpec("consumer"),
                                  <<InputSpec("in", FALSE, Some(Str05))>>, <<"out">>)
WithOptional == ContainerComponent(ContainerSpec("consumer"),
                                   <<InputSpec("in", TRUE, NoneStr)>>, <<"out">>)

\* a single container as the root task
RootContainer == TaskSpec(Producer, <<>>)
\* a single container with a constant argument as the root task
RootContainerConst == TaskSpec(Consumer, <<<<"in", ConstantArgument(Str42)>>>>)
\* a single container whose constant argument has a multi-byte character
RootContainerUnicode == TaskSpec(Consumer, <<<<"in", ConstantArgument(Str5Euro)>>>>)
\* a graph with one container that takes a constant
OneTask ==
    TaskSpec(GraphComponent(<<>>,
        <<<<"a", TaskSpec(Consumer, <<<<"in", ConstantArgument(Str42)>>>>)>>>>, <<>>), <<>>)
\* the linear pipeline a -> b -> c (listed out of order)
Chain ==
    TaskSpec(GraphComponent(<<>>,
        << <<"c", TaskSpec(Consumer, <<<<"in", TaskOutputArgument("b", "out")>>>>)>>,
           <<"b", TaskSpec(Consumer, <<<<"in", TaskOutputArgument("a", "out")>>>>)>>,
           <<"a", TaskSpec(Producer, <<>>)>> >>, <<>>), <<>>)
\* c consumes the outputs of both a and b
Join ==
    TaskSpec(GraphComponent(<<>>,
        << <<"a", TaskSpec(Producer, <<>>)>>,
           <<"b", TaskSpec(Producer, <<>>)>>,
           <<"c", TaskSpec(Joiner, << <<"in1", TaskOutputArgument("a", "out")>>,
                                      <<"in2", TaskOutputArgument("b", "out")>> >>)>> >>,
        <<>>), <<>>)
\* a nested graph g whose output is consumed by its sibling x; the graph takes the
\* root's constant as its input
Nested ==
    TaskSpec(GraphComponent(<<InputSpec("in", FALSE, NoneStr)>>,
        << <<"g", TaskSpec(GraphComponent(<<InputSpec("in", TRUE, NoneStr)>>,
                      <<<<"i", TaskSpec(Consumer, <<<<"in", GraphInputArgument("in")>>>>)>>>>,
                      <<<<"out", TaskOutputArgument("i", "out")>>>>),
                      <<<<"in", GraphInputArgument("in")>>>>)>>,
           <<"x", TaskSpec(Consumer, <<<<"in", TaskOutputArgument("g", "out")>>>>)>> >>,
        <<>>), <<<<"in", ConstantArgument(Str42)>>>>)
\* defaults and optional inputs
Defaults ==
    TaskSpec(GraphComponent(<<>>,
        << <<"a", TaskSpec(WithDefault, <<>>)>>,
           <<"b", TaskSpec(WithOptional, <<>>)>> >>, <<>>), <<>>)

\* rejected: a dependency cycle
Cyclic ==
    TaskSpec(GraphComponent(<<>>,
        << <<"x", TaskSpec(Consumer, <<<<"in", TaskOutputArgument("y", "out")>>>>)>>,
           <<"y", TaskSpec(Consumer, <<<<"in", TaskOutputArgument("x", "out")>>>>)>> >>,
        <<>>), <<>>)
\* rejected: a reference to a task that is not in the graph
Dangling ==
    TaskSpec(GraphComponent(<<>>,
        <<<<"a", TaskSpec(Consumer, <<<<"in", TaskOutputArgument("z", "out")>>>>)>>>>, <<>>), <<>>)
\* rejected: the second child has a required input without argument or default
MissingInput ==
    TaskSpec(GraphComponent(<<>>,
        << <<"a", TaskSpec(Consumer, <<<<"in", ConstantArgument(Str42)>>>>)>>,
           <<"b", TaskSpec(Consumer, <<>>)>> >>, <<>>), <<>>)
\* rejected: a root argument that is not a constant
RootGraphInput == TaskSpec(Consumer, <<<<"in", GraphInputArgument("in")>>>>)
\* rejected: a child without implementation, after its sibling has been created
NoImplementation ==
    TaskSpec(GraphComponent(<<>>,
        << <<"a", TaskSpec(Producer, <<>>)>>,
           <<"b", TaskSpec([Producer EXCEPT !.implementation = "none"], <<>>)>> >>, <<>>), <<>>)
\* rejected: an implementation that is neither a container nor a graph
UnknownImplementation ==
    TaskSpec(GraphComponent(<<>>,
        << <<"a", TaskSpec(Consumer, <<<<"in", ConstantArgument(Str42)>>>>)>>,
           <<"b", TaskSpec([Producer EXCEPT !.implementation = "other"], <<>>)>> >>, <<>>), <<>>)
\* rejected: a graph output that is a constant, and one that names a missing output
BadOutputValue ==
    TaskSpec(GraphComponent(<<>>,
        <<<<"a", TaskSpec(Producer, <<>>)>>>>,
        <<<<"out", ConstantArgument(Str42)>>>>), <<>>)
MissingOutput ==
    TaskSpec(GraphComponent(<<>>,
        <<<<"a", TaskSpec(Producer, <<>>)>>>>,
        <<<<"out", TaskOutputArgument("a", "nope")>>>>), <<>>)

\* three containers that do not depend on each other
Fan ==
    TaskSpec(GraphComponent(<<>>,
        << <<"a", TaskSpec(Producer, <<>>)>>,
           <<"b", TaskSpec(Producer, <<>>)>>,
           <<"c", TaskSpec(Producer, <<>>)>> >>, <<>>), <<>>)
\* a graph inside a graph, with two containers
NestedPair ==
    TaskSpec(GraphComponent(<<>>,
        << <<"g", TaskSpec(GraphComponent(<<>>,
                      << <<"p", TaskSpec(Producer, <<>>)>>,
                         <<"q", TaskSpec(Consumer,
                                   <<<<"in", TaskOutputArgument("p", "out")>>>>)>> >>,
                      <<>>), <<>>)>> >>, <<>>), <<>>)
\* a nested graph g that consumes the output of its sibling p and hands it to its child i
GraphDownstream ==
    TaskSpec(GraphComponent(<<>>,
        << <<"p", TaskSpec(Producer, <<>>)>>,
           <<"g", TaskSpec(GraphComponent(<<InputSpec("in", FALSE, NoneStr)>>,
                      <<<<"i", TaskSpec(Consumer, <<<<"in", GraphInputArgument("in")>>>>)>>>>,
                      <<>>),
                      <<<<"in", TaskOutputArgument("p", "out")>>>>)>> >>,
        <<>>), <<>>)
AcceptedTasks == {RootContainer, RootContainerConst, OneTask, Chain, Join, Nested, Defaults,
                  GraphDownstream, RootContainerUnicode}
RejectedTasks == {Cyclic, Dangling, MissingInput, RootGraphInput, NoImplementation,
                  UnknownImplementation, BadOutputValue, MissingOutput}
RootTasks == AcceptedTasks \cup RejectedTasks

-----------------------------------------------------------------------------
(* Orchestrator helpers (orchestrator_sql.py) *)

ContainerStatuses == {"PENDING", "RUNNING", "SUCCEEDED", "FAILED", "ERROR"}
InFlightStatuses == {"PENDING", "RUNNING"}
ReadyStatuses == {"UNINITIALIZED", "QUEUED"}
TerminalStatuses == {"SUCCEEDED", "FAILED", "SKIPPED", "SYSTEM_ERROR", "CANCELLED"}

\* the names that occur as dict keys, in the order json.dumps(sort_keys=True) puts them
NameOrder == <<"a", "b", "in", "in1", "in2", "out", "x", "y">>
KeyRank(n) == CHOOSE i \in 1..Len(NameOrder) : NameOrder[i] = n
SortByKey_as_listed(od) == od
\* the items of a dict sorted by key
SortByKey(od) ==
    AsSeq([i \in 1..Len(od) |->
        od[CHOOSE j \in 1..Len(od) :
              Cardinality({k \in 1..Len(od) : KeyRank(od[k][1]) < KeyRank(od[j][1])}) = i - 1]])

\* json.dumps(cache_key_struct, separators=(",", ":"), sort_keys=True) (line 627):
\* the text is determined by the items in key order, at every level
json_dumps_sorted(cache_key_struct) ==
    << <<"container_spec", [cache_key_struct.container_spec EXCEPT !.env = SortByKey(@)]>>,
       <<"input_hashes", SortByKey(cache_key_struct.input_hashes)>> >>

\* "md5=" + hashlib.md5(s.encode("utf-8")).hexdigest() of a JSON text (607-610)
calculate_hash_of_text(text) == <<"md5=", text>>

\* _calculate_container_execution_cache_key (613-630); input_artifact_data is the dict
\* input_name -> ArtifactData row in the order the query returned the rows
calculate_container_execution_cache_key(container_spec, input_artifact_data) ==
    LET input_hashes == AsSeq([i \in 1..Len(input_artifact_data) |->
                            <<input_artifact_data[i][1], input_artifact_data[i][2].hash>>])
        cache_key_struct == [container_spec |-> container_spec, input_hashes |-> input_hashes]
    IN calculate_hash_of_text(json_dumps_sorted(cache_key_struct))

set_status(d, id, status) ==
    [d EXCEPT !.execution_nodes[id].container_execution_status = status]

RECURSIVE set_statuses(_, _, _)
set_statuses(d, ids, status) ==
    IF ids = {} THEN d
    ELSE LET id == CHOOSE x \in ids : TRUE
         IN set_statuses(set_status(d, id, status), ids \ {id}, status)

\* _get_direct_downstream_executions (556-566)
get_direct_downstream_executions(d, id) ==
    {l2.execution_id : l2 \in
        {l \in d.input_links :
            \E l1 \in d.output_links : l1.execution_id = id /\ l1.artifact_id = l.artifact_id}}

mark_without_descending(d, id, seen_execution_ids) ==
    [db |-> d, seen |-> seen_execution_ids \cup {id}]
\* _mark_all_downstream_executions_as_skipped (570-592); returns [db, seen]
RECURSIVE mark_all_downstream_executions_as_skipped(_, _, _)
RECURSIVE mark_each_downstream(_, _)
mark_all_downstream_executions_as_skipped(d, id, seen_execution_ids) ==
    IF id \in seen_execution_ids THEN [db |-> d, seen |-> seen_execution_ids]
    ELSE LET d1 == IF d.execution_nodes[id].container_execution_status = "WAITING_FOR_UPSTREAM"
                   THEN set_status(d, id, "SKIPPED") ELSE d
         IN mark_each_downstream([db |-> d1, seen |-> seen_execution_ids \cup {id}],
                                 get_direct_downstream_executions(d1, id))
mark_each_downstream(r, todo) ==
    IF todo = {} THEN r
    ELSE LET x == CHOOSE x \in todo : TRUE
         IN mark_each_downstream(
                mark_all_downstream_executions_as_skipped(r.db, x, r.seen), todo \ {x})

\* the loops `for execution_node in execution_nodes: _mark_all_...(execution_node)`
RECURSIVE skip_downstream_of_each(_, _)
skip_downstream_of_each(d, ids) ==
    IF ids = {} THEN d
    ELSE LET id == CHOOSE x \in ids : TRUE
         IN skip_downstream_of_each(
                mark_all_downstream_executions_as_skipped(d, id, {}).db, ids \ {id})

\* _get_current_time() written to last_processed_at: later than every stamp stored so
\* far. Only the order of the stamps is read (ORDER BY), so they are kept as ranks.
stamp_last_processed_at(ces, ce_id) ==
    LET top == Len(ces) + 1
        stamped == [ces EXCEPT ![ce_id].last_processed_at = top]
    IN AsSeq([i \in 1..Len(ces) |->
          [stamped[i] EXCEPT !.last_processed_at =
              Cardinality({j \in 1..Len(ces) :
                  stamped[j].last_processed_at < stamped[i].last_processed_at}) + 1]])

\* a set as a sequence in some order (the order in which a query returns rows)
RECURSIVE SetToSeq(_)
SetToSeq(S) == IF S = {} THEN <<>>
               ELSE LET x == CHOOSE x \in S : TRUE IN <<x>> \o SetToSeq(S \ {x})

-----------------------------------------------------------------------------
(* The ready-queue sweep (orchestrator_sql.py 71-103, 154-361) *)

\* lines 173-182: the dict input_name -> ArtifactData id (0: no data yet)
input_artifact_data_ids(d, id) ==
    LET rows == SetToSeq({l \in d.input_links : l.execution_id = id})
    IN AsSeq([i \in 1..Len(rows) |->
          <<rows[i].input_name, d.artifact_nodes[rows[i].artifact_id].artifact_data_id>>])

\* lines 200-208: is there a PipelineRun whose root is linked as an ancestor of id
pipeline_run_found(d, id) ==
    \E r \in 1..Len(d.pipeline_runs) : <<id, d.pipeline_runs[r].root_execution_id>> \in d.ancestor_links

\* naming_utils.sanitize_file_name (package cloud_pipelines, called at lines 233-234 and
\* 243-244), by its documented rule: lowercase, every character outside [a-z0-9-]
\* becomes "-", repeated "-" collapse into one, leading and trailing "-" are trimmed
LowerCase(c) == IF c \in 65..90 THEN c + 32 ELSE c
ReplaceDisallowed(c) == IF c \in (97..122) \cup (48..57) \cup {45} THEN c ELSE 45
RECURSIVE CollapseRepeats(_)
CollapseRepeats(s) ==
    IF Len(s) < 2 THEN s
    ELSE IF s[1] = 45 /\ s[2] = 45 THEN CollapseRepeats(Tail(s))
    ELSE <<s[1]>> \o CollapseRepeats(Tail(s))
RECURSIVE TrimLeft(_, _)
TrimLeft(s, c) == IF s # <<>> /\ s[1] = c THEN TrimLeft(Tail(s), c) ELSE s
\* str.rstrip(c)
RECURSIVE rstrip(_, _)
rstrip(s, c) == IF s # <<>> /\ s[Len(s)] = c THEN rstrip(SubSeq(s, 1, Len(s) - 1), c) ELSE s
sanitize_file_name(name) ==
    rstrip(TrimLeft(CollapseRepeats(
        AsSeq([i \in 1..Len(name) |-> ReplaceDisallowed(LowerCase(name[i]))])), 45), 45)

\* the names of the documents of the model, as strings of code points
NameChars == << <<"out", <<111, 117, 116>> >>, <<"in", <<105, 110>> >>,
               <<"in1", <<105, 110, 49>> >>, <<"in2", <<105, 110, 50>> >> >>
\* self._data_root_uri: "mem:/"
DataRootUri == <<109, 101, 109, 58, 47>>

\* generate_input_artifact_uri (lines 227-235); execution_id is the execution's uuid,
\* hex digits that sanitize_file_name leaves as they are
generate_input_artifact_uri(root_dir, execution_id, input_name) ==
    <<rstrip(root_dir, 47), "by_execution", execution_id, "inputs",
      sanitize_file_name(input_name), "data">>
\* generate_output_artifact_uri (lines 237-245)
generate_output_artifact_uri(root_dir, execution_id, output_name) ==
    <<rstrip(root_dir, 47), "by_execution", execution_id, "outputs",
      sanitize_file_name(output_name), "data">>
\* lines 258-265: output_name -> uri under the execution's uuid
output_artifact_uris(component_spec, execution_uuid) ==
    AsSeq([i \in 1..Len(component_spec.outputs) |->
        <<component_spec.outputs[i],
          generate_output_artifact_uri(DataRootUri, execution_uuid,
                                       Lookup(NameChars, component_spec.outputs[i]))>>])

\* a rollback that keeps the session's pending changes
rollback_keeps_session(committed, session) == session

\* session.rollback(): the session's uncommitted changes are dropped
rollback(committed, session) == committed

\* lines 313-323: the handler of a failed launch, committed on its own
launch_error_commit(d, id) ==
    mark_all_downstream_executions_as_skipped(set_status(d, id, "SYSTEM_ERROR"), id, {}).db

pending_commit_without_key(d, id, cache_key, launched_status, container_id) ==
    LET component_spec == d.execution_nodes[id].task_spec.component
        ce_id == Len(d.container_executions) + 1
        container_execution ==
            [status |-> "PENDING",
             last_processed_at |-> ce_id,
             launcher_data |-> [id |-> container_id, status |-> launched_status],
             output_artifact_data_map |-> output_artifact_uris(component_spec, ce_id)]
        ces == Append(d.container_executions, container_execution)
    IN [d EXCEPT !.container_executions = stamp_last_processed_at(ces, ce_id),
                 !.execution_nodes[id].container_execution_id = ce_id,
                 !.execution_nodes[id].container_execution_status = "PENDING"]
\* lines 325-360: the ContainerExecution row and the node's move to PENDING
pending_commit(d, id, cache_key, launched_status, container_id) ==
    LET component_spec == d.execution_nodes[id].task_spec.component
        ce_id == Len(d.container_executions) + 1
        container_execution ==
            [status |-> "PENDING",
             last_processed_at |-> ce_id,
             launcher_data |-> [id |-> container_id, status |-> launched_status],
             output_artifact_data_map |-> output_artifact_uris(component_spec, ce_id)]
        ces == Append(d.container_executions, container_execution)
    IN [d EXCEPT !.container_executions = stamp_last_processed_at(ces, ce_id),
                 !.execution_nodes[id].container_execution_id = ce_id,
                 !.execution_nodes[id].container_execution_cache_key = cache_key,
                 !.execution_nodes[id].container_execution_status = "PENDING"]

waiting_for_upstream_forgotten(d, id) == d
\* lines 187-189: the downgrade of a node whose inputs are not all there
waiting_for_upstream(d, id) == set_status(d, id, "WAITING_FOR_UPSTREAM")

\* the local variables of a call of a queue handler that one of its segments sets and
\* a later one reads
NoArgs == [cache_key |-> NoKey, launched |-> "none", container_id |-> 0,
           refreshed |-> "none", error |-> "none", execution_nodes |-> <<>>]

\* A call of a queue handler is a sequence of segments, each running up to the next
\* commit of the call (or to its end); the tables a segment reads are those committed
\* when it runs, and the rows an earlier segment loaded are in args. The result of a segment: the tables it commits (db), whether an
\* exception has escaped to the caller (raised), where the call goes on (pc; "idle":
\* it has returned), and the values the call holds in local variables (args).

\* internal_process_one_queued_execution (154-361), one segment of it. pc is where
\* the segment begins: "start" (lines 157-305: the reads of the session and the call
\* of launch_container_task, with no commit), "launched" (the launcher has returned
\* or raised: lines 306-323, or 325-360 for a container in flight), "pending" and
\* "unbound" (line 325 on, after the handler of lines 313-323 has committed).
\* outcome is what launch_container_task does: "raise", or the status of the
\* container it returns; launched is the status of the container that the segment
\* has made the launcher start ("none": none). What the session read before the
\* launch (args) is what the later segments write.
internal_process_one_queued_execution(d, id, pc, args, outcome, container_id) ==
    LET execution == d.execution_nodes[id]
        component_spec == execution.task_spec.component
        input_ids == input_artifact_data_ids(d, id)
        input_artifact_data == AsSeq([i \in 1..Len(input_ids) |->
                                  <<input_ids[i][1], d.artifact_data[input_ids[i][2]]>>])
        cache_key == calculate_container_execution_cache_key(component_spec.container,
                                                             input_artifact_data)
        leaves == [db |-> d, commit |-> FALSE, raised |-> TRUE, pc |-> "idle",
                   launch_called |-> FALSE, launched |-> "none", args |-> NoArgs]
        commits(db, next) == [db |-> db, commit |-> TRUE, raised |-> FALSE, pc |-> next,
                              launch_called |-> TRUE, launched |-> "none",
                              args |-> IF next = "idle" THEN NoArgs ELSE args]
    IN IF pc = "start"
       THEN IF component_spec.implementation # "container" THEN leaves
            ELSE IF \E i \in 1..Len(input_ids) : input_ids[i][2] = 0
            THEN [leaves EXCEPT !.db = waiting_for_upstream(d, id), !.commit = TRUE,
                                !.raised = FALSE]
            ELSE IF ~pipeline_run_found(d, id) THEN leaves
            ELSE [db |-> d, commit |-> FALSE, raised |-> FALSE, pc |-> "launched",
                  launch_called |-> TRUE,
                  launched |-> IF outcome = "raise" THEN "none" ELSE outcome,
                  args |-> [NoArgs EXCEPT !.cache_key = cache_key, !.launched = outcome,
                                          !.container_id = container_id]]
       ELSE IF pc = "launched"
       THEN IF args.launched = "raise"
            \* the handler commits; the call goes on at line 325, which reads the
            \* unbound launched_container
            THEN commits(launch_error_commit(d, id), "unbound")
            ELSE IF args.launched \notin InFlightStatuses
            \* the handler commits; the call goes on at line 325
            THEN commits(launch_error_commit(d, id), "pending")
            ELSE commits(pending_commit(d, id, args.cache_key, args.launched,
                                        args.container_id), "idle")
       ELSE IF pc = "unbound"
       THEN [leaves EXCEPT !.launch_called = TRUE]
       ELSE commits(pending_commit(d, id, args.cache_key, args.launched, args.container_id),
                    "idle")

queued_execution_error_handler_requeueing(d, id) == set_status(d, id, "QUEUED")
\* lines 92-97: the except clause of internal_process_queued_executions_queue
queued_execution_error_handler(d, id) == set_status(d, id, "SYSTEM_ERROR")

\* internal_process_queued_executions_queue (71-103) for the node the query returned:
\* one segment of the call
internal_process_queued_executions_queue(d, id, pc, args, outcome, container_id) ==
    LET r == internal_process_one_queued_execution(d, id, pc, args, outcome, container_id)
    IN IF r.raised
       THEN [r EXCEPT !.db = queued_execution_error_handler(rollback(d, r.db), id),
                      !.commit = TRUE]
       ELSE r

-----------------------------------------------------------------------------
(* The in-flight sweep (orchestrator_sql.py 105-152, 363-553) *)

\* _MAX_PRELOAD_VALUE_SIZE (line 431)
MAX_PRELOAD_VALUE_SIZE == 255

\* what the storage provider holds at an output uri: get_info() gives total_size,
\* is_dir and the md5; text is the content decoded as UTF-8 (NoneStr: not decodable)
StoredObjects ==
    { [total_size |-> 2, is_dir |-> FALSE, md5 |-> Utf8(Str42), text |-> Some(Str42)],
      [total_size |-> 300, is_dir |-> TRUE, md5 |-> <<0>>, text |-> NoneStr] }

\* _maybe_preload_value (433-447)
maybe_preload_value(data_info) ==
    IF ~data_info.is_dir /\ data_info.total_size < MAX_PRELOAD_VALUE_SIZE
    THEN data_info.text ELSE NoneStr

\* lines 461-479: the ArtifactData row of one output
new_output_artifact_data(data_info, uri) ==
    [total_size |-> data_info.total_size, is_dir |-> data_info.is_dir,
     hash |-> <<"md5=", data_info.md5>>, value |-> maybe_preload_value(data_info), uri |-> uri]

\* the ExecutionNodes of a ContainerExecution (relationship execution_nodes)
execution_nodes_of(d, ce_id) ==
    {i \in 1..Len(d.execution_nodes) : d.execution_nodes[i].container_execution_id = ce_id}

\* lines 489-497 without the assignment of artifact_data
attach_output_data_skipped(d, links, data_ids) == d

\* lines 489-497: the node's output artifacts get the new data; data_ids maps
\* output_name -> id of the new ArtifactData row
RECURSIVE attach_output_data(_, _, _)
attach_output_data(d, links, data_ids) ==
    IF links = {} THEN d
    ELSE LET l == CHOOSE x \in links : TRUE
         IN attach_output_data(
              [d EXCEPT !.artifact_nodes[l.artifact_id].artifact_data_id = data_ids[l.output_name],
                        !.artifact_nodes[l.artifact_id].had_data_in_past = TRUE],
              links \ {l}, data_ids)

wake_up_all_waiting(d, id) ==
    set_statuses(d, {x \in 1..Len(d.execution_nodes) :
                        d.execution_nodes[x].container_execution_status = "WAITING_FOR_UPSTREAM"},
                 "QUEUED")
wake_up_queued_downstream(d, id) ==
    set_statuses(d, {x \in get_direct_downstream_executions(d, id) :
                        d.execution_nodes[x].container_execution_status = "QUEUED"},
                 "QUEUED")
wake_up_every_downstream(d, id) ==
    set_statuses(d, get_direct_downstream_executions(d, id), "QUEUED")
\* lines 500-509: WAITING_FOR_UPSTREAM direct downstream executions become QUEUED
wake_up_downstream(d, id) ==
    set_statuses(d, {x \in get_direct_downstream_executions(d, id) :
                        d.execution_nodes[x].container_execution_status = "WAITING_FOR_UPSTREAM"},
                 "QUEUED")

\* lines 484-509 for each node of the container execution
RECURSIVE finalize_nodes(_, _, _)
finalize_nodes(d, ids, data_ids) ==
    IF ids = {} THEN d
    ELSE LET id == CHOOSE x \in ids : TRUE
             d1 == set_status(d, id, "SUCCEEDED")
             d2 == attach_output_data(d1, {l \in d1.output_links : l.execution_id = id}, data_ids)
         IN finalize_nodes(wake_up_downstream(d2, id), ids \ {id}, data_ids)

fail_nodes_without_status(d, ids) == skip_downstream_of_each(d, ids)
\* lines 519-525 for each node of the container execution
RECURSIVE fail_nodes(_, _)
fail_nodes(d, ids) ==
    IF ids = {} THEN d
    ELSE LET id == CHOOSE x \in ids : TRUE
         IN fail_nodes(mark_all_downstream_executions_as_skipped(
                            set_status(d, id, "FAILED"), id, {}).db, ids \ {id})

\* the flush of a commit writes the attributes whose value differs from the one the
\* session loaded (or wrote in an earlier commit of the call: expire_on_commit =
\* False, line 368) and no others. session is the state the transaction computes from
\* the nodes as the session holds them; ids are the nodes to which it assigns the
\* status they already have in the session: their rows are not written and stay as
\* committed.
RECURSIVE flush_unchanged(_, _, _)
flush_unchanged(committed, session, ids) ==
    IF ids = {} THEN session
    ELSE LET id == CHOOSE x \in ids : TRUE
         IN flush_unchanged(
                committed,
                set_status(session, id,
                           committed.execution_nodes[id].container_execution_status),
                ids \ {id})

\* line 409: container_execution.execution_nodes as the session loads them, each node
\* of the container execution with the status its row has then (NoStatus: not one of
\* its nodes)
load_execution_nodes(d, ce_id) ==
    AsSeq([n \in 1..Len(d.execution_nodes) |->
              IF n \in execution_nodes_of(d, ce_id)
              THEN d.execution_nodes[n].container_execution_status ELSE NoStatus])

\* lines 415-534 of the try block: d is what is committed when the waiting of the
\* block (upload_log, get_info, the download of small values) is over and the block
\* writes, loaded_nodes what line 409 loaded. fault names the step that raises:
\* "upload_log", "get_info", or "late" (after the session's changes, before the
\* commit); "none": nothing raises. Returns the state the commit of line 534 leaves
\* and whether an exception was raised.
apply_new_status(d, ce_id, new_status, fault, data_info, loaded_nodes) ==
    LET nodes == {n \in 1..Len(loaded_nodes) : loaded_nodes[n] # NoStatus}
        unchanged == {n \in nodes : loaded_nodes[n] = new_status}
        ce == d.container_executions[ce_id]
        uris == ce.output_artifact_data_map
        first_id == Len(d.artifact_data)
        data_ids == [n \in Keys(uris) |->
                        first_id + (CHOOSE i \in 1..Len(uris) : uris[i][1] = n)]
        d_data == [d EXCEPT !.artifact_data = @ \o
                      [i \in 1..Len(uris) |-> new_output_artifact_data(data_info, uris[i][2])]]
        d_succeeded == finalize_nodes(
                          [d_data EXCEPT !.container_executions[ce_id].status = "SUCCEEDED"],
                          nodes, data_ids)
        d_failed_ce == [d EXCEPT !.container_executions[ce_id].status = "FAILED"]
        d_running == set_statuses([d EXCEPT !.container_executions[ce_id].status = "RUNNING"],
                                  nodes, "RUNNING")
    IN IF new_status = "RUNNING"
       THEN [db |-> flush_unchanged(d, d_running, unchanged), raised |-> fault = "late"]
       ELSE IF new_status = "SUCCEEDED" THEN
            IF fault \in {"upload_log", "get_info"} THEN [db |-> d, raised |-> TRUE]
            ELSE [db |-> flush_unchanged(d, d_succeeded, unchanged), raised |-> fault = "late"]
       ELSE IF new_status = "FAILED" THEN
            IF fault = "upload_log" THEN [db |-> d_failed_ce, raised |-> TRUE]
            ELSE [db |-> flush_unchanged(d, fail_nodes(d_failed_ce, nodes), unchanged),
                  raised |-> fault = "late"]
       ELSE [db |-> d, raised |-> TRUE]

system_error_commit_without_nodes(d, ce_id, k) ==
    IF k = 1 THEN [d EXCEPT !.container_executions[ce_id].status = "SYSTEM_ERROR"] ELSE d
\* lines 536-553 and 129-148: the k-th of the three commits of the error handlers
system_error_commit(d, ce_id, k) ==
    LET nodes == execution_nodes_of(d, ce_id)
    IN IF k = 1 THEN [d EXCEPT !.container_executions[ce_id].status = "SYSTEM_ERROR"]
       ELSE IF k = 2 THEN set_statuses(d, nodes, "SYSTEM_ERROR")
       ELSE flush_unchanged(d, skip_downstream_of_each(set_statuses(d, nodes, "SYSTEM_ERROR"),
                                                       nodes), nodes)

\* internal_process_one_running_execution (363-553), one segment of it: from pc to
\* the next commit or to the end of the call, and from the load of the nodes (409)
\* to the waiting that follows it: the commit of line 534 writes, of the nodes
\* loaded, those whose status it changes from the one loaded, whatever has been
\* committed to them in between. refreshed is the status the launcher
\* reports when asked; args.fault names the step that raises ("refresh":
\* deserialization or refresh). commit tells whether the segment ends with a commit.
internal_process_one_running_execution(d, ce_id, pc, args, refreshed, fault, data_info) ==
    LET launcher_data == d.container_executions[ce_id].launcher_data
        previous_status == launcher_data.status
        reloaded_launcher_data == [launcher_data EXCEPT !.status = refreshed]
        attempt == apply_new_status(d, ce_id, args.refreshed, fault, data_info,
                                    args.execution_nodes)
        step(db, commit, next) ==
            [db |-> db, commit |-> commit, raised |-> FALSE, pc |-> next, args |-> args]
    IN IF pc = "start"
       \* lines 368-371
       THEN step([d EXCEPT !.container_executions = stamp_last_processed_at(@, ce_id)],
                 TRUE, "refresh")
       ELSE IF pc = "refresh"
       \* lines 372-403
       THEN IF previous_status \notin InFlightStatuses \/ fault = "refresh"
            THEN [step(d, FALSE, "idle") EXCEPT !.raised = TRUE]
            ELSE IF reloaded_launcher_data = launcher_data
            THEN [step(d, FALSE, "idle") EXCEPT !.args.refreshed = refreshed]
            ELSE [step([d EXCEPT !.container_executions[ce_id].launcher_data =
                                     reloaded_launcher_data],
                       TRUE, "new_status") EXCEPT !.args.refreshed = refreshed]
       ELSE IF pc = "new_status"
       \* lines 404-413: the session loads the nodes of the container execution; the
       \* calls the block then waits for come before anything is written
       THEN IF execution_nodes_of(d, ce_id) = {}
            THEN [step(system_error_commit(d, ce_id, 1), TRUE, "error_nodes")
                     EXCEPT !.args.error = "handled"]
            ELSE [step(d, FALSE, "loaded")
                     EXCEPT !.args.execution_nodes = load_execution_nodes(d, ce_id)]
       ELSE IF pc = "loaded"
       \* lines 415-539
       THEN IF attempt.raised
            THEN [step(system_error_commit(rollback(d, attempt.db), ce_id, 1),
                       TRUE, "error_nodes") EXCEPT !.args.error = "handled"]
            ELSE step(attempt.db, TRUE, "idle")
       ELSE IF pc = "error_nodes"
       \* lines 540-546
       THEN step(system_error_commit(d, ce_id, 2), TRUE, "error_skip")
       \* lines 547-553
       ELSE step(system_error_commit(d, ce_id, 3), TRUE, "idle")

\* internal_process_running_executions_queue (105-152) for the row the query
\* returned, one segment of it
internal_process_running_executions_queue(d, ce_id, pc, args, refreshed, fault, data_info) ==
    IF pc = "queue_error_nodes"
    \* lines 135-142
    THEN [db |-> system_error_commit(d, ce_id, 2), commit |-> TRUE, raised |-> TRUE,
          pc |-> "queue_error_skip", args |-> args]
    ELSE IF pc = "queue_error_skip"
    \* lines 143-148
    THEN [db |-> system_error_commit(d, ce_id, 3), commit |-> TRUE, raised |-> TRUE,
          pc |-> "idle", args |-> args]
    ELSE LET r == internal_process_one_running_execution(d, ce_id, pc, args, refreshed,
                                                          fault, data_info)
         \* lines 127-134
         IN IF r.raised
            THEN [r EXCEPT !.db = system_error_commit(rollback(d, r.db), ce_id, 1),
                           !.commit = TRUE, !.pc = "queue_error_nodes",
                           !.args.error = "raised"]
            ELSE r

is_any_in_flight(d, ce_id) == d.container_executions[ce_id].status \in InFlightStatuses
\* the row `ORDER BY last_processed_at LIMIT 1` returns among the in-flight ones
is_first_in_flight(d, ce_id) ==
    /\ d.container_executions[ce_id].status \in InFlightStatuses
    /\ \A j \in 1..Len(d.container_executions) :
          d.container_executions[j].status \in InFlightStatuses
          => d.container_executions[ce_id].last_processed_at
                <= d.container_executions[j].last_processed_at

-----------------------------------------------------------------------------
(* ExecutionNodesApiService_Sql (api_server_sql.py 254-386): the answers are
   records of one shape; a dict of the answer is a function *)

ApiIdle ==
    [op |-> "idle", id |-> 0, error |-> "none", child_task_execution_ids |-> EmptyDict,
     input_artifacts |-> EmptyDict, output_artifacts |-> EmptyDict,
     child_execution_status_stats |-> EmptyDict, rows |-> {}, first_read |-> <<>>]

\* execution_node.child_executions
child_executions(d, id) ==
    {c \in 1..Len(d.execution_nodes) : d.execution_nodes[c].parent_execution_id = id}

\* lines 262-266: a task id that is None or empty is filed under "<missing>"; the
\* children come in no stated order, and of the children that share a key the last
\* one stays: the dicts that the comprehension can build
get_child_task_execution_ids(d, id) ==
    LET key(c) == IF d.execution_nodes[c].task_id_in_parent_execution \in {None, ""}
                  THEN "<missing>" ELSE d.execution_nodes[c].task_id_in_parent_execution
    IN {f \in [{key(c) : c \in child_executions(d, id)} -> child_executions(d, id)] :
           \A k \in DOMAIN f : key(f[k]) = k}

\* lines 267-274: the dict of the rows of InputArtifactLink with execution_id = id
get_input_artifacts(d, id) ==
    LET rows == {l \in d.input_links : l.execution_id = id}
    IN [n \in {l.input_name : l \in rows} |-> (CHOOSE l \in rows : l.input_name = n).artifact_id]

\* lines 275-283: the query selects from OutputArtifactLink and filters on
\* InputArtifactLink.execution_id, so its rows are the product of all
\* OutputArtifactLink rows with the InputArtifactLink rows of execution id
get_output_artifact_rows(d, id) ==
    {<<o.output_name, o.artifact_id>> :
        o \in {o \in d.output_links : \E l \in d.input_links : l.execution_id = id}}
\* the dicts the comprehension can build from these rows: they come in no stated
\* order, and for an output name that several rows carry the last one stays
get_output_artifacts(d, id) ==
    LET rows == get_output_artifact_rows(d, id)
    IN {f \in [{r[1] : r \in rows} -> {r[2] : r \in rows}] :
           \A n \in DOMAIN f : <<n, f[n]>> \in rows}

\* ExecutionNodesApiService_Sql.get (256-291): the answers it can give
get(d, id) ==
    IF id \notin 1..Len(d.execution_nodes)
    THEN {[ApiIdle EXCEPT !.op = "get", !.id = id, !.error = "ItemNotFoundError"]}
    ELSE {[ApiIdle EXCEPT !.op = "get", !.id = id,
                          !.child_task_execution_ids = child_task_execution_ids,
                          !.input_artifacts = get_input_artifacts(d, id),
                          !.output_artifacts = output_artifacts] :
             child_task_execution_ids \in get_child_task_execution_ids(d, id),
             output_artifacts \in get_output_artifacts(d, id)}

no_descendant_rows(d, id) == {}
\* child_descendants_query (327-348): rows <<child id, status, count>>
child_descendants_execution_stat_rows(d, id) ==
    LET descendants(c, st) ==
            {l \in d.ancestor_links :
                l[2] = c /\ d.execution_nodes[l[1]].container_execution_status = st}
        statuses == {d.execution_nodes[n].container_execution_status :
                        n \in 1..Len(d.execution_nodes)} \ {NoStatus}
    IN {r \in {<<c, st, Cardinality(descendants(c, st))>> :
                  c \in child_executions(d, id), st \in statuses} : r[3] > 0}
\* direct_container_children_query (349-360)
child_container_execution_stat_rows(d, id) ==
    {<<c, d.execution_nodes[c].container_execution_status, 1>> :
        c \in {c \in child_executions(d, id) :
                  d.execution_nodes[c].container_execution_status # NoStatus}}

\* ExecutionNodesApiService_Sql.get_graph_execution_state (293-386) from its second
\* statement on: first is what the first statement (367-369) returned, d the tables
\* when the second (370-372) runs; the rows of the first, then those of the second,
\* are written into the dict of dicts
get_graph_execution_state(first, d, id) ==
    LET second == child_container_execution_stat_rows(d, id)
        rows == first \cup second
        count(c, st) == IF \E r \in second : r[1] = c /\ r[2] = st
                        THEN (CHOOSE r \in second : r[1] = c /\ r[2] = st)[3]
                        ELSE (CHOOSE r \in first : r[1] = c /\ r[2] = st)[3]
    IN [ApiIdle EXCEPT !.op = "get_graph_execution_state", !.id = id,
          !.child_execution_status_stats =
             [c \in {r[1] : r \in rows} |->
                [st \in {r[2] : r \in {r \in rows : r[1] = c}} |-> count(c, st)]]]

-----------------------------------------------------------------------------
(* State *)

Db == [execution_nodes |-> execution_nodes, artifact_nodes |-> artifact_nodes,
       artifact_data |-> artifact_data, input_links |-> input_links,
       output_links |-> output_links, ancestor_links |-> ancestor_links,
       pipeline_runs |-> pipeline_runs, container_executions |-> container_executions]

\* the session's commit: the tables become those of d
Commit(d) ==
    /\ execution_nodes' = d.execution_nodes
    /\ artifact_nodes' = d.artifact_nodes
    /\ artifact_data' = d.artifact_data
    /\ input_links' = d.input_links
    /\ output_links' = d.output_links
    /\ ancestor_links' = d.ancestor_links
    /\ pipeline_runs' = d.pipeline_runs
    /\ container_executions' = d.container_executions

\* container_execution_status of every ExecutionNode of d
Statuses(d) ==
    AsSeq([i \in 1..Len(d.execution_nodes) |-> d.execution_nodes[i].container_execution_status])
\* the status of the ContainerExecution of every ExecutionNode of d that has one
ContainerExecutionStatuses(d) ==
    AsSeq([i \in 1..Len(d.execution_nodes) |->
        IF d.execution_nodes[i].container_execution_id = 0 THEN NoStatus
        ELSE d.container_executions[d.execution_nodes[i].container_execution_id].status])
\* what a reader of the database sees of d: the statuses of the nodes and of their
\* ContainerExecutions, and the ArtifactNodes with data
Snapshot(d) ==
    [statuses |-> Statuses(d),
     container_execution_statuses |-> ContainerExecutionStatuses(d),
     with_data |-> {a \in 1..Len(d.artifact_nodes) : d.artifact_nodes[a].artifact_data_id # 0}]
\* the snapshots before an operation and at each of its commits
Trail(d, commits) ==
    <<Snapshot(d)>> \o AsSeq([i \in 1..Len(commits) |-> Snapshot(commits[i])])

\* the nodes that are QUEUED in one snapshot of tr and in another status in the next
LeavingQueued(tr) ==
    {n \in 1..Len(tr[1].statuses) :
        \E k \in 1..(Len(tr) - 1) :
           tr[k].statuses[n] = "QUEUED" /\ tr[k + 1].statuses[n] # "QUEUED"}

Op(op, id, error, launched) ==
    [op |-> op, id |-> id, error |-> error, launched |-> launched, refreshed |-> "none"]

PureIdle ==
    /\ ts_in = <<>> /\ ts_out = [error |-> "idle", sorted |-> <<>>, culprit |-> None]
    /\ ck_in = <<>> /\ ck_out = <<>>
    /\ call_in = <<>> /\ call_out = <<>>
    /\ sweep_log = <<>> /\ api_out = ApiIdle

\* the orchestrator thread is between two calls of a queue handler
SweepIdle == [pc |-> "idle", op |-> "none", id |-> 0, args |-> NoArgs, trail |-> <<>>]

\* the empty database that database_ops creates, and no container
InitDb ==
    /\ execution_nodes = <<>> /\ artifact_nodes = <<>> /\ artifact_data = <<>>
    /\ input_links = {} /\ output_links = {} /\ ancestor_links = {}
    /\ pipeline_runs = <<>> /\ container_executions = <<>>
    /\ containers = <<>>
    /\ last_op = Op("init", 0, "none", FALSE)
    /\ trail = <<>>
    /\ launch_calls = EmptyDict
    /\ left_queued = {}
    /\ sweep = SweepIdle
    /\ admin_writes = 0

Init == InitDb /\ PureIdle

\* POST /api/pipeline_runs: PipelineRunsApiService_Sql.create. A create that raises
\* writes nothing, so its place among the segments of a call of the orchestrator
\* changes no table: the model takes it between two calls. A create that commits
\* may come between any two segments.
Create(root_task) ==
    /\ \E r \in {create(Db, root_task)} :
          /\ Len(r.db.pipeline_runs) <= MaxRuns
          /\ Len(r.db.execution_nodes) <= MaxExecs
          /\ r.error = "none" \/ sweep.pc = "idle"
          /\ Commit(r.db)
          /\ last_op' = Op("create", r.id, r.error, FALSE)
          /\ trail' = Trail(Db, <<r.db>>)
    /\ UNCHANGED <<containers, auxvars>>

\* what launch_container_task may do: raise, or return a container in this status
LaunchOutcomes == {"raise", "PENDING", "RUNNING", "SUCCEEDED"}
\* the step of the in-flight sweep that raises ("none": no step does)
Faults == {"none", "refresh", "upload_log", "get_info", "late"}
\* how a container's real status moves at the launcher
Progress == { <<"PENDING", "RUNNING">>, <<"RUNNING", "SUCCEEDED">>,
              <<"RUNNING", "FAILED">>, <<"RUNNING", "ERROR">> }

(* A call of a queue handler is a sequence of segments, each ending with a commit
   (or with the launch of a container, with the load of rows that the call keeps
   while it waits for the launcher and the storage, or with the end of the call):
   one step of
   the model is one segment, and what the call holds in Python locals between two
   segments is in sweep. The two
   handlers run one after the other on the orchestrator's thread
   (process_each_queue_once, lines 59-69), so no call begins while another is in
   progress; the API, the launcher's containers and a stop of the process do not
   wait for the call. A segment of the ready sweep ends when launch_container_task
   has started the container as well: the commit that records the container is the
   next segment. last_op.op is "ready" or "in_flight" when the call has ended, and
   trail then holds every commit of it. *)

\* one segment of internal_process_queued_executions_queue (each queue handler runs
\* in a session of its own): the launcher starts the container r.launched, or the
\* session commits r.db. tr is what the call had committed before the segment.
ReadySweepCommits(id, r, tr) ==
    /\ \E d \in {r.db} : Commit(d)
    /\ containers' = IF r.launched = "none" THEN containers
                     ELSE Append(containers, r.launched)
    /\ last_op' = Op(IF r.pc = "idle" THEN "ready" ELSE "ready_running", id,
                     IF r.raised THEN "raised" ELSE "none", r.launch_called)
    /\ trail' = IF r.commit THEN Append(tr, Snapshot(r.db)) ELSE tr
    /\ launch_calls' =
          IF r.pc = "launched"
          THEN Put(launch_calls, id,
                   Append(IF id \in DOMAIN launch_calls THEN launch_calls[id] ELSE <<>>,
                          IF r.args.launched = "raise" THEN "raised" ELSE "returned"))
          ELSE launch_calls
    /\ left_queued' = left_queued \cup LeavingQueued(<<Snapshot(Db), Snapshot(r.db)>>)
\* where the call is after segment r
SweepAfter(op, id, r, tr) ==
    IF r.pc = "idle" THEN SweepIdle
    ELSE [pc |-> r.pc, op |-> op, id |-> id, args |-> r.args,
          trail |-> IF r.commit THEN Append(tr, Snapshot(r.db)) ELSE tr]
\* the first segment: the query has no ORDER BY, so any ready node may be the one
\* returned. The segment ends with the commit of WAITING_FOR_UPSTREAM or of the
\* handler of lines 92-98, or, without a commit, with launch_container_task having
\* started the container (or raised).
ReadySweep(id, outcome) ==
    /\ sweep.pc = "idle"
    /\ id \in 1..Len(execution_nodes)
    /\ execution_nodes[id].container_execution_status \in ReadyStatuses
    /\ \E r \in {internal_process_queued_executions_queue(
                     Db, id, "start", NoArgs, outcome, Len(containers) + 1)} :
          /\ ReadySweepCommits(id, r, <<Snapshot(Db)>>)
          /\ sweep' = SweepAfter("ready", id, r, <<Snapshot(Db)>>)
    /\ UNCHANGED <<purevars, sweep_log, api_out, admin_writes>>
\* the next segment of the call in progress: after the launch, the commit of lines
\* 355-360 or of the except clause of lines 313-323; after that clause, the rest of
\* the call. The rows are written as they are when the segment runs.
ReadySweepNext ==
    /\ sweep.op = "ready"
    /\ \E r \in {internal_process_queued_executions_queue(
                     Db, sweep.id, sweep.pc, sweep.args, "none", 0)} :
          /\ ReadySweepCommits(sweep.id, r, sweep.trail)
          /\ sweep' = SweepAfter("ready", sweep.id, r, sweep.trail)
    /\ UNCHANGED <<purevars, sweep_log, api_out, admin_writes>>

\* one segment of internal_process_running_executions_queue; tr is what the call
\* had committed before it
InFlightSweepCommits(ce_id, r, tr) ==
    /\ \E d \in {r.db} : Commit(d)
    /\ \E t \in {IF r.commit THEN Append(tr, Snapshot(r.db)) ELSE tr} :
          /\ trail' = t
          /\ sweep' = IF r.pc = "idle" THEN SweepIdle
                      ELSE [pc |-> r.pc, op |-> "in_flight", id |-> ce_id,
                            args |-> r.args, trail |-> t]
    /\ last_op' = [Op(IF r.pc = "idle" THEN "in_flight" ELSE "in_flight_running",
                      ce_id, r.args.error, FALSE)
                   EXCEPT !.refreshed = r.args.refreshed]
    /\ left_queued' = left_queued \cup LeavingQueued(<<Snapshot(Db), Snapshot(r.db)>>)
\* the first segment: the query and the commit of last_processed_at (lines 105-126
\* and 363-371)
InFlightSweepStep(ce_id) ==
    /\ sweep.pc = "idle"
    /\ ce_id \in 1..Len(container_executions)
    /\ is_first_in_flight(Db, ce_id)
    /\ \E r \in {internal_process_running_executions_queue(
                     Db, ce_id, "start", NoArgs, "none", "none", <<>>)} :
          InFlightSweepCommits(ce_id, r, <<Snapshot(Db)>>)
    /\ UNCHANGED <<containers, purevars, launch_calls, admin_writes>>
InFlightSweep(ce_id) ==
    InFlightSweepStep(ce_id) /\ UNCHANGED <<sweep_log, api_out>>
\* the next segment of the call in progress. The launcher reports the status the
\* container has when the segment runs; fault is the call of the segment that
\* raises (the refresh in lines 372-403, the others in lines 415-534), data_info
\* what the storage provider says of the output data.
InFlightSweepNext(fault, data_info) ==
    /\ sweep.op = "in_flight"
    /\ IF sweep.pc = "refresh" THEN fault \in {"none", "refresh"}
       ELSE IF sweep.pc = "loaded" THEN fault # "refresh"
       ELSE fault = "none"
    /\ \E r \in {internal_process_running_executions_queue(
                     Db, sweep.id, sweep.pc, sweep.args,
                     containers[container_executions[sweep.id].launcher_data.id],
                     fault, data_info)} :
          InFlightSweepCommits(sweep.id, r, sweep.trail)
    /\ UNCHANGED <<containers, purevars, launch_calls, sweep_log, api_out, admin_writes>>

\* the environment: a launched container moves on
ContainerProgress(c, status) ==
    /\ c \in 1..Len(containers)
    /\ <<containers[c], status>> \in Progress
    /\ containers' = [containers EXCEPT ![c] = status]
    /\ UNCHANGED <<dbvars, last_op, trail, auxvars>>

\* POST /api/pipeline_runs/{id}/cancel (api_router.py 271-310): the handler calls
\* pipeline_run_service.terminate, which PipelineRunsApiService_Sql does not define.
\* The route writes nothing, so its place among the segments of a call of the
\* orchestrator changes no table: the model takes it between two calls.
Cancel(run) ==
    /\ sweep.pc = "idle"
    /\ run \in 1..Len(pipeline_runs)
    /\ last_op' = Op("cancel", run, "AttributeError", FALSE)
    /\ trail' = Trail(Db, <<>>)
    /\ UNCHANGED <<dbvars, containers, auxvars>>

Next ==
    \/ \E t \in RootTasks : Create(t)
    \/ \E id \in 1..MaxExecs, outcome \in LaunchOutcomes : ReadySweep(id, outcome)
    \/ ReadySweepNext
    \/ \E ce_id \in 1..MaxExecs : InFlightSweep(ce_id)
    \/ \E fault \in Faults, data_info \in StoredObjects : InFlightSweepNext(fault, data_info)
    \/ \E c \in 1..MaxExecs, status \in ContainerStatuses : ContainerProgress(c, status)
    \/ \E run \in 1..MaxRuns : Cancel(run)

Spec == Init /\ [][Next]_vars

\* The orchestrator when nothing goes wrong: run_loop (51-57) calls
\* process_each_queue_once for ever, the launcher returns a PENDING or RUNNING
\* container, no call raises, and every container runs and succeeds.
LiveReadySweep ==
    \E id \in 1..MaxExecs, outcome \in InFlightStatuses : ReadySweep(id, outcome)
LiveInFlightSweep == \E ce_id \in 1..MaxExecs : InFlightSweep(ce_id)
LiveInFlightSweepNext == \E data_info \in StoredObjects : InFlightSweepNext("none", data_info)
LiveContainerProgress ==
    \E c \in 1..MaxExecs, status \in {"RUNNING", "SUCCEEDED"} : ContainerProgress(c, status)
NextLive ==
    \/ \E t \in AcceptedTasks : Create(t)
    \/ LiveReadySweep
    \/ ReadySweepNext
    \/ LiveInFlightSweep
    \/ LiveInFlightSweepNext
    \/ LiveContainerProgress
SpecLive ==
    /\ Init /\ [][NextLive]_vars
    /\ WF_vars(LiveReadySweep) /\ WF_vars(ReadySweepNext)
    /\ WF_vars(LiveInFlightSweep) /\ WF_vars(LiveInFlightSweepNext)
    /\ WF_vars(LiveContainerProgress)

-----------------------------------------------------------------------------
(* The orchestrator process stops in the middle of a call and is started again:
   what the call had committed stays, the rest of the call never runs, and
   run_loop (51-57) goes on with new calls *)

\* the process stops between two segments of the call in progress. A stop between
\* the launch and the commit that follows it leaves a container that no
\* ContainerExecution row names, and the node is launched again after the restart;
\* at most MaxLostContainers containers are lost in this way.
Stop ==
    /\ sweep.pc # "idle"
    /\ Len(containers) - Len(container_executions) <= MaxLostContainers
    /\ sweep' = SweepIdle
    /\ last_op' = Op("stopped", sweep.id, "none", FALSE)
    /\ trail' = sweep.trail
    /\ UNCHANGED <<dbvars, containers, purevars, sweep_log, api_out, launch_calls,
                   left_queued, admin_writes>>
RestartContainerProgress ==
    \E c \in 1..MaxExecs, status \in {"RUNNING", "SUCCEEDED", "FAILED"} :
       ContainerProgress(c, status)
NextRestart ==
    \/ \E t \in {OneTask, Chain} : Create(t)
    \/ LiveReadySweep
    \/ ReadySweepNext
    \/ LiveInFlightSweep
    \/ LiveInFlightSweepNext
    \/ Stop
    \/ RestartContainerProgress
SpecRestart == Init /\ [][NextRestart]_vars
\* the same without a stop
NextNoRestart ==
    \/ \E t \in {OneTask, Chain} : Create(t)
    \/ LiveReadySweep
    \/ ReadySweepNext
    \/ LiveInFlightSweep
    \/ LiveInFlightSweepNext
    \/ RestartContainerProgress
SpecNoRestart == Init /\ [][NextNoRestart]_vars

-----------------------------------------------------------------------------
(* The admin route that writes a node's status (api_router.py 326-343) beside the
   orchestrator *)

\* the members of ContainerExecutionStatus that the code names
ContainerExecutionStatusValues ==
    ReadyStatuses \cup InFlightStatuses \cup TerminalStatuses \cup {"WAITING_FOR_UPSTREAM"}
\* PUT /api/admin/execution_node/{id}/status: one commit that sets the status column
\* of the row; for an id without a row session.get returns None and the assignment
\* raises AttributeError
AdminSetExecutionNodeStatus(id, status) ==
    /\ admin_writes < MaxAdminWrites
    /\ admin_writes' = admin_writes + 1
    /\ \E d \in {IF id \in 1..Len(execution_nodes) THEN set_status(Db, id, status) ELSE Db} :
          /\ Commit(d)
          /\ trail' = Trail(Db, <<d>>)
    /\ last_op' = Op("admin_set_status", id,
                     IF id \in 1..Len(execution_nodes) THEN "none" ELSE "AttributeError",
                     FALSE)
    /\ UNCHANGED <<containers, purevars, sweep_log, api_out, launch_calls, left_queued,
                   sweep>>
NextAdmin ==
    \/ \E t \in {OneTask, Chain} : Create(t)
    \/ \E id \in 1..MaxExecs, outcome \in LaunchOutcomes : ReadySweep(id, outcome)
    \/ ReadySweepNext
    \/ \E ce_id \in 1..MaxExecs : InFlightSweep(ce_id)
    \/ \E fault \in Faults, data_info \in StoredObjects : InFlightSweepNext(fault, data_info)
    \/ \E c \in 1..MaxExecs, status \in ContainerStatuses : ContainerProgress(c, status)
    \/ \E id \in 1..(MaxExecs + 1), status \in ContainerExecutionStatusValues :
          AdminSetExecutionNodeStatus(id, status)
SpecAdmin == Init /\ [][NextAdmin]_vars
\* The route beside the orchestrator when nothing goes wrong: run_loop (51-57) keeps
\* calling the two handlers in turn, launches return PENDING or RUNNING, no call
\* raises, containers run and succeed; nothing obliges an admin to write. The run is
\* of the graph with one task
NextAdminLive ==
    \/ Create(OneTask)
    \/ LiveReadySweep
    \/ ReadySweepNext
    \/ LiveInFlightSweep
    \/ LiveInFlightSweepNext
    \/ LiveContainerProgress
    \/ \E id \in 1..MaxExecs, status \in ContainerExecutionStatusValues :
          AdminSetExecutionNodeStatus(id, status)
SpecAdminLive ==
    /\ Init /\ [][NextAdminLive]_vars
    /\ WF_vars(LiveReadySweep) /\ WF_vars(ReadySweepNext)
    /\ WF_vars(LiveInFlightSweep) /\ WF_vars(LiveInFlightSweepNext)
    /\ WF_vars(LiveContainerProgress)

-----------------------------------------------------------------------------
(* Aging of the in-flight queue: containers are launched and never change status,
   and the in-flight sweep goes on; sweep_log records, for each sweep, the
   ContainerExecution refreshed and the ContainerExecutions then in flight *)

InFlightContainerExecutions ==
    {ce \in 1..Len(container_executions) : container_executions[ce].status \in InFlightStatuses}

AgingSweep(ce_id) ==
    /\ Len(sweep_log) < MaxSweeps
    /\ InFlightSweepStep(ce_id)
    /\ sweep_log' = Append(sweep_log, <<ce_id, InFlightContainerExecutions>>)
    /\ UNCHANGED api_out

NextAging ==
    \/ Create(Fan)
    \/ \E id \in 1..MaxExecs, outcome \in InFlightStatuses : ReadySweep(id, outcome)
    \/ ReadySweepNext
    \/ \E ce_id \in 1..MaxExecs : AgingSweep(ce_id)
    \/ LiveInFlightSweepNext
SpecAging == Init /\ [][NextAging]_vars

-----------------------------------------------------------------------------
(* The read API beside the orchestrator: a statement of a read answers from the
   tables committed when it runs, and the orchestrator may commit between two
   statements of one read; the next operation starts when the answer has been
   returned *)

ApiDbStep ==
    /\ api_out.op \in {"idle", "get_graph_execution_state_reading"}
    /\ \/ \E t \in AcceptedTasks \cup {NestedPair} : Create(t)
       \/ LiveReadySweep
       \/ ReadySweepNext
       \/ LiveInFlightSweep
       \/ LiveInFlightSweepNext
       \/ \E c \in 1..MaxExecs, status \in {"RUNNING", "SUCCEEDED", "FAILED"} :
             ContainerProgress(c, status)

\* GET /api/executions/{id}/details
GetExecution(id) ==
    /\ api_out.op = "idle"
    /\ api_out' \in get(Db, id)
    /\ UNCHANGED <<dbvars, containers, last_op, trail, purevars, sweep_log, launch_calls, left_queued, sweep, admin_writes>>

\* GET /api/executions/{id}/state, the first statement (367-369); first_read is what
\* the tables held for it: the statuses of the descendants of execution id
GetGraphExecutionState(id) ==
    /\ api_out.op = "idle"
    /\ api_out' = [ApiIdle EXCEPT
                      !.op = "get_graph_execution_state_reading", !.id = id,
                      !.rows = child_descendants_execution_stat_rows(Db, id),
                      !.first_read =
                         AsSeq([n \in 1..Len(execution_nodes) |->
                                   IF <<n, id>> \in ancestor_links
                                   THEN execution_nodes[n].container_execution_status
                                   ELSE NoStatus])]
    /\ UNCHANGED <<dbvars, containers, last_op, trail, purevars, sweep_log, launch_calls, left_queued, sweep, admin_writes>>
\* the second statement (370-372) and the answer built from both
GetGraphExecutionStateNext ==
    /\ api_out.op = "get_graph_execution_state_reading"
    /\ api_out' = [get_graph_execution_state(api_out.rows, Db, api_out.id)
                      EXCEPT !.first_read = api_out.first_read]
    /\ UNCHANGED <<dbvars, containers, last_op, trail, purevars, sweep_log, launch_calls, left_queued, sweep, admin_writes>>

ApiReturn ==
    /\ api_out.op \notin {"idle", "get_graph_execution_state_reading"}
    /\ api_out' = ApiIdle
    /\ UNCHANGED <<dbvars, containers, last_op, trail, purevars, sweep_log, launch_calls, left_queued, sweep, admin_writes>>

NextApi ==
    \/ ApiDbStep
    \/ \E id \in 1..(MaxExecs + 1) : GetExecution(id)
    \/ \E id \in 1..(MaxExecs + 1) : GetGraphExecutionState(id)
    \/ GetGraphExecutionStateNext
    \/ ApiReturn
SpecApi == Init /\ [][NextApi]_vars

-----------------------------------------------------------------------------
(* _toposort_tasks on its own: every task map of at most MaxTasks tasks *)

TaskIdOrder == <<"a", "b", "c", "d">>
\* the arguments a task of these maps may have: a constant, or the output of one of
\* the first MaxTasks task ids (which the map may or may not contain)
ToposortArguments ==
    {ConstantArgument(Str42)}
       \cup {TaskOutputArgument(TaskIdOrder[i], "out") : i \in 1..MaxTasks}
ToposortArgumentDicts ==
    {<<>>} \cup {<< <<"in1", a>> >> : a \in ToposortArguments}
           \cup {<< <<"in1", a>>, <<"in2", b>> >> : a \in ToposortArguments, b \in ToposortArguments}
\* the iteration orders of a dict of n tasks
ToposortOrders(n) == {f \in [1..n -> 1..n] : \A i, j \in 1..n : i # j => f[i] # f[j]}

\* ts_in is a dict whose keys are the first n task ids, in any iteration order
InitToposort ==
    /\ InitDb
    /\ \E n \in 0..MaxTasks :
          \E order \in ToposortOrders(n), args \in [1..n -> ToposortArgumentDicts] :
             ts_in = AsSeq([i \in 1..n |-> <<TaskIdOrder[order[i]], TaskSpec(Joiner, args[i])>>])
    /\ ts_out = [error |-> "idle", sorted |-> <<>>, culprit |-> None]
    /\ ck_in = <<>> /\ ck_out = <<>>
    /\ call_in = <<>> /\ call_out = <<>>
    /\ sweep_log = <<>> /\ api_out = ApiIdle

Toposort ==
    /\ ts_out.error = "idle"
    /\ ts_out' = toposort_tasks(ts_in)
    /\ UNCHANGED <<dbvars, containers, last_op, trail, ts_in, ck_in, ck_out, call_in, call_out, sweep_log, api_out, launch_calls, left_queued, sweep, admin_writes>>

NextToposort == Toposort
SpecToposort == InitToposort /\ [][NextToposort]_vars

-----------------------------------------------------------------------------
(* _calculate_container_execution_cache_key on its own: every pair of nodes *)

\* the input dicts have at most this many inputs
MaxInputs == 2

CacheKeyContainerSpecs ==
    {[image |-> image, command |-> <<"run">>, env |-> env] :
        image \in {"producer", "consumer"},
        env \in {<<>>, << <<"x", Str42>>, <<"y", Str05>> >>, << <<"y", Str05>>, <<"x", Str42>> >>}}
\* ArtifactData rows: two of one content at different URIs, one of another content
CacheKeyArtifactData ==
    {[total_size |-> 2, is_dir |-> FALSE, hash |-> <<"md5=", Utf8(Str42)>>,
      value |-> Some(Str42), uri |-> Some(<<1>>)],
     [total_size |-> 2, is_dir |-> FALSE, hash |-> <<"md5=", Utf8(Str42)>>,
      value |-> Some(Str42), uri |-> Some(<<2>>)],
     [total_size |-> 3, is_dir |-> FALSE, hash |-> <<"md5=", Utf8(Str05)>>,
      value |-> Some(Str05), uri |-> Some(<<3>>)]}
CacheKeyInputNames == {NameOrder[i] : i \in 3..(2 + MaxInputs)}
\* the dicts input_name -> ArtifactData, in every insertion order
CacheKeyInputDicts ==
    UNION {
      {AsSeq(d) : d \in {f \in [1..n -> CacheKeyInputNames \X CacheKeyArtifactData] :
                            \A i, j \in 1..n : i # j => f[i][1] # f[j][1]}} : n \in 0..MaxInputs }
\* what lines 193-195 pass for one node
CacheKeyNodes ==
    {[container_spec |-> c, input_artifact_data |-> d] :
        c \in CacheKeyContainerSpecs, d \in CacheKeyInputDicts}

InitCacheKey ==
    /\ InitDb
    /\ ts_in = <<>> /\ ts_out = [error |-> "idle", sorted |-> <<>>, culprit |-> None]
    /\ ck_in \in CacheKeyNodes \X CacheKeyNodes
    /\ ck_out = <<>>
    /\ call_in = <<>> /\ call_out = <<>>
    /\ sweep_log = <<>> /\ api_out = ApiIdle

CalculateCacheKeys ==
    /\ ck_out = <<>>
    /\ ck_out' = <<calculate_container_execution_cache_key(
                      ck_in[1].container_spec, ck_in[1].input_artifact_data),
                   calculate_container_execution_cache_key(
                      ck_in[2].container_spec, ck_in[2].input_artifact_data)>>
    /\ UNCHANGED <<dbvars, containers, last_op, trail, ts_in, ts_out, ck_in, call_in, call_out, sweep_log, api_out, launch_calls, left_queued, sweep, admin_writes>>

NextCacheKey == CalculateCacheKeys
SpecCacheKey == InitCacheKey /\ [][NextCacheKey]_vars

-----------------------------------------------------------------------------
(* Properties of the compiler and the sweeps *)

IsContainerNode(n) == execution_nodes[n].task_spec.component.implementation = "container"
DeclaredOutputs(n) == Range(execution_nodes[n].task_spec.component.outputs)
NodeStatus(n) == execution_nodes[n].container_execution_status

\* C2: a terminal status (SUCCEEDED, FAILED, SKIPPED, SYSTEM_ERROR, CANCELLED) is
\* absorbing: from one commit to the next, within every operation, a node that is in
\* a terminal status keeps it
C2_TerminalAbsorbing ==
    \A k \in 1..(Len(trail) - 1) :
       \A n \in 1..Len(trail[k].statuses) :
          trail[k].statuses[n] \in TerminalStatuses
          => trail[k + 1].statuses[n] = trail[k].statuses[n]

\* the transitions of the state machine as listed
ListedTransitions ==
    { <<"WAITING_FOR_UPSTREAM", "QUEUED">>, <<"QUEUED", "PENDING">>,
      <<"QUEUED", "SYSTEM_ERROR">>, <<"QUEUED", "SUCCEEDED">>, <<"PENDING", "RUNNING">>,
      <<"WAITING_FOR_UPSTREAM", "SKIPPED">> }
    \cup (InFlightStatuses \X {"SUCCEEDED", "FAILED", "SYSTEM_ERROR"})
    \cup (({"UNINITIALIZED", "WAITING_FOR_UPSTREAM", "QUEUED"} \cup InFlightStatuses)
             \X {"CANCELLED"})

\* C3: every status change that compilation or a sweep commits is a listed
\* transition: a new container node starts QUEUED or WAITING_FOR_UPSTREAM (a graph
\* node has no status), and a committed change of status is one of ListedTransitions
C3_OnlyListedTransitions ==
    \A k \in 1..(Len(trail) - 1) :
       \A n \in 1..Len(trail[k + 1].statuses) :
          IF n > Len(trail[k].statuses)
          THEN trail[k + 1].statuses[n] \in
                  (IF IsContainerNode(n) THEN {"QUEUED", "WAITING_FOR_UPSTREAM"}
                                         ELSE {NoStatus})
          ELSE \/ trail[k + 1].statuses[n] = trail[k].statuses[n]
               \/ <<trail[k].statuses[n], trail[k + 1].statuses[n]>> \in ListedTransitions

\* C4: every SUCCEEDED node has, for each output its component declares, an
\* OutputArtifactLink whose ArtifactNode has artifact_data
C4_SucceededHasOutputData ==
    \A n \in 1..Len(execution_nodes) :
       NodeStatus(n) = "SUCCEEDED"
       => \A o \in DeclaredOutputs(n) :
             \E l \in output_links :
                /\ l.execution_id = n /\ l.output_name = o
                /\ artifact_nodes[l.artifact_id].artifact_data_id # 0
\* a node with a declared output has SUCCEEDED
C4_Witness ==
    \E n \in 1..Len(execution_nodes) :
       NodeStatus(n) = "SUCCEEDED" /\ DeclaredOutputs(n) # {}

\* C5: at every commit, an ArtifactNode that has a producer has data exactly when
\* the producer's status is SUCCEEDED: the data and the status appear in the same
\* commit, and a finalization that fails leaves no data attached
C5_DataOnlyWithSucceededProducer ==
    \A k \in 1..Len(trail) :
       \A a \in 1..Len(trail[k].statuses) :
          (a <= Len(artifact_nodes) /\ artifact_nodes[a].producer_execution_id # 0
             /\ artifact_nodes[a].producer_execution_id <= Len(trail[k].statuses))
          => (a \in trail[k].with_data
                <=> trail[k].statuses[artifact_nodes[a].producer_execution_id] = "SUCCEEDED")
\* an in-flight sweep has just attached data to a produced artifact, or has just
\* handled a failure of the finalization of a container that had succeeded
C5_Witness ==
    /\ last_op.op = "in_flight"
    /\ \/ \E a \in 1..Len(artifact_nodes) :
             /\ artifact_nodes[a].producer_execution_id # 0
             /\ a \in Last(trail).with_data /\ a \notin trail[1].with_data
       \/ /\ last_op.error = "handled"
          /\ containers[container_executions[last_op.id].launcher_data.id] = "SUCCEEDED"

\* the cache key of node n as the ready sweep computes it
ComputedCacheKey(n) ==
    LET ids == input_artifact_data_ids(Db, n)
    IN calculate_container_execution_cache_key(
          execution_nodes[n].task_spec.component.container,
          AsSeq([i \in 1..Len(ids) |-> <<ids[i][1], artifact_data[ids[i][2]]>>]))
InputsAvailable(n) ==
    \A l \in input_links :
       l.execution_id = n => artifact_nodes[l.artifact_id].artifact_data_id # 0
\* the ArtifactData of the output named o of node n (0: none)
OutputData(n, o) ==
    LET ls == {l \in output_links : l.execution_id = n /\ l.output_name = o}
    IN IF ls = {} THEN 0 ELSE artifact_nodes[(CHOOSE l \in ls : TRUE).artifact_id].artifact_data_id

\* C6: when the ready sweep takes a QUEUED node whose inputs are all available and
\* whose cache key is that of a node that has SUCCEEDED before, the node becomes
\* SUCCEEDED without a launch and its outputs share the ArtifactData of that node
C6_CacheHit ==
    \A m \in 1..Len(execution_nodes) :
       ( /\ last_op.op = "ready" /\ m # last_op.id /\ m <= Len(trail[1].statuses)
         /\ trail[1].statuses[last_op.id] = "QUEUED"
         /\ InputsAvailable(last_op.id)
         /\ trail[1].statuses[m] = "SUCCEEDED"
         /\ execution_nodes[m].container_execution_cache_key = ComputedCacheKey(last_op.id) )
       => /\ ~last_op.launched
          /\ NodeStatus(last_op.id) = "SUCCEEDED"
          /\ \A o \in DeclaredOutputs(last_op.id) : OutputData(last_op.id, o) = OutputData(m, o)

\* the nodes of a run: its root and the nodes that have the root as an ancestor
NodesOfRun(run) ==
    {n \in 1..Len(execution_nodes) :
        \/ n = pipeline_runs[run].root_execution_id
        \/ <<n, pipeline_runs[run].root_execution_id>> \in ancestor_links}

\* C8: cancel leaves every container node of the run in a terminal status: a node
\* that was not terminal is CANCELLED (or SKIPPED, when it was waiting downstream of
\* one), and a terminal node is unchanged
C8_CancelTerminates ==
    last_op.op = "cancel"
    => \A n \in NodesOfRun(last_op.id) :
          IsContainerNode(n)
          => /\ NodeStatus(n) \in TerminalStatuses
             /\ trail[1].statuses[n] \in TerminalStatuses => NodeStatus(n) = trail[1].statuses[n]
             /\ trail[1].statuses[n] \notin TerminalStatuses
                => NodeStatus(n) \in {"CANCELLED", "SKIPPED"}

\* C1: when no launch raises and every launched container comes to report SUCCEEDED,
\* every container node of an accepted run is eventually SUCCEEDED
C1_EveryContainerNodeSucceeds ==
    \A n \in 1..MaxExecs :
       (n <= Len(execution_nodes) /\ IsContainerNode(n))
          ~> (n <= Len(execution_nodes) /\ NodeStatus(n) = "SUCCEEDED")

\* the map input_name -> ArtifactData.hash of a node
InputHashes(input_artifact_data) ==
    [n \in Keys(input_artifact_data) |-> Lookup(input_artifact_data, n).hash]
\* equality of two container specs as JSON documents (a dict has no order)
SameContainerSpec(c1, c2) ==
    /\ c1.image = c2.image /\ c1.command = c2.command
    /\ [k \in Keys(c1.env) |-> Lookup(c1.env, k)] = [k \in Keys(c2.env) |-> Lookup(c2.env, k)]

\* C7: two nodes get the same cache key exactly when their container specs are equal
\* and their maps input_name -> ArtifactData.hash are equal, whatever the order of
\* the inputs and whichever ArtifactData rows carry the hashes
C7_CacheKeyDeterminism ==
    ck_out # <<>> =>
       ((ck_out[1] = ck_out[2])
          <=> (/\ SameContainerSpec(ck_in[1].container_spec, ck_in[2].container_spec)
               /\ InputHashes(ck_in[1].input_artifact_data)
                    = InputHashes(ck_in[2].input_artifact_data)))
\* two nodes whose inputs are listed in opposite orders, one input coming from
\* another ArtifactData row with the same hash, were given the same key
C7_Witness ==
    /\ ck_out # <<>> /\ ck_out[1] = ck_out[2]
    /\ Len(ck_in[1].input_artifact_data) = 2 /\ Len(ck_in[2].input_artifact_data) = 2
    /\ ck_in[1].input_artifact_data[1][1] = ck_in[2].input_artifact_data[2][1]
    /\ ck_in[1].input_artifact_data[1][2].uri # ck_in[2].input_artifact_data[2][2].uri
    /\ ck_in[1].container_spec.env # ck_in[2].container_spec.env

\* the TaskOutputArgument references of a task map, as pairs <<consumer, producer>>
TaskOutputReferences(tasks) ==
    UNION { {<<tasks[i][1], tasks[i][2].arguments[j][2].task_id>> :
                j \in {j \in 1..Len(tasks[i][2].arguments) :
                          tasks[i][2].arguments[j][2].kind = "task_output"}} :
            i \in 1..Len(tasks) }
\* some reference names a task id that the map does not have
HasUnknownReference(tasks) ==
    \E e \in TaskOutputReferences(tasks) : e[2] \notin Keys(tasks)
\* some task consumes, directly or through other tasks, its own output
HasCycle(tasks) ==
    \E n \in 1..Len(tasks) :
       \E p \in [1..(n + 1) -> Keys(tasks)] :
          /\ p[1] = p[n + 1]
          /\ \A i \in 1..n : <<p[i + 1], p[i]>> \in TaskOutputReferences(tasks)

\* C10: _toposort_tasks raises exactly when a TaskOutputArgument names a task id that
\* is not in the map or the TaskOutputArgument dependencies have a cycle (a task that
\* consumes its own output included), and returns for every other task map
C10_ToposortRaisesExactly ==
    ts_out.error # "idle" =>
       ((ts_out.error # "none") <=> (HasUnknownReference(ts_in) \/ HasCycle(ts_in)))
\* a map in which a task consumes its own output was refused
C10_Witness ==
    /\ ts_out.error = "ValueError"
    /\ \E e \in TaskOutputReferences(ts_in) : e[1] = e[2]

\* C9: a create that raises leaves every table exactly as it was
C9_CreateAtomic ==
    [][(last_op'.op = "create" /\ last_op'.error # "none") => dbvars' = dbvars]_vars
\* a create has raised while the tables held rows
C9_Witness ==
    /\ last_op.op = "create" /\ last_op.error # "none"
    /\ execution_nodes # <<>>

\* the nodes met when walking parent_execution_id from n, n included
RECURSIVE ParentChain(_)
ParentChain(n) ==
    IF execution_nodes[n].parent_execution_id = 0 THEN {n}
    ELSE {n} \cup ParentChain(execution_nodes[n].parent_execution_id)

\* C11: the ExecutionToAncestorExecutionLink pairs are exactly the reflexive-transitive
\* closure of parent_execution_id (no pair missing, no pair extra), and walking
\* parent_execution_id from any node reaches the root of a run
C11_AncestorClosure ==
    /\ ancestor_links =
          {p \in (1..Len(execution_nodes)) \X (1..Len(execution_nodes)) : p[2] \in ParentChain(p[1])}
    /\ \A n \in 1..Len(execution_nodes) :
          \E r \in 1..Len(pipeline_runs) : pipeline_runs[r].root_execution_id \in ParentChain(n)

\* the consumers of the output artifacts of n
DirectDownstream(n) ==
    {l.execution_id : l \in {l \in input_links :
        \E o \in output_links : o.execution_id = n /\ o.artifact_id = l.artifact_id}}
RECURSIVE DownstreamClosure(_, _)
DownstreamClosure(S, k) ==
    IF k = 0 THEN S
    ELSE DownstreamClosure(S \cup UNION {DirectDownstream(n) : n \in S}, k - 1)
\* the nodes reachable from n along direct-downstream edges
ReachableDownstream(n) == DownstreamClosure(DirectDownstream(n), Len(execution_nodes))
\* the nodes that the last operation moved to FAILED or SYSTEM_ERROR
NewlyFailed ==
    {e \in 1..Len(trail[1].statuses) :
        \E k \in 1..(Len(trail) - 1) :
           /\ trail[k].statuses[e] \notin {"FAILED", "SYSTEM_ERROR"}
           /\ trail[k + 1].statuses[e] \in {"FAILED", "SYSTEM_ERROR"}}

\* C12: when a sweep moves nodes to FAILED or SYSTEM_ERROR, at its end every other
\* node that is reachable from one of them along direct-downstream edges and was
\* WAITING_FOR_UPSTREAM is SKIPPED, and every other node has the status it had
C12_SkipPropagation ==
    (last_op.op \in {"ready", "in_flight"} /\ NewlyFailed # {}) =>
       \A n \in (1..Len(trail[1].statuses)) \ NewlyFailed :
          NodeStatus(n) =
             IF /\ trail[1].statuses[n] = "WAITING_FOR_UPSTREAM"
                /\ \E e \in NewlyFailed : n \in ReachableDownstream(e)
             THEN "SKIPPED" ELSE trail[1].statuses[n]
\* in a chain A -> B -> C, A has just become FAILED and B and C are SKIPPED
C12_Witness ==
    /\ last_op.op = "in_flight"
    /\ \E a \in NewlyFailed : \E b \in DirectDownstream(a) : \E c \in DirectDownstream(b) :
          /\ NodeStatus(a) = "FAILED" /\ c \notin DirectDownstream(a)
          /\ NodeStatus(b) = "SKIPPED" /\ NodeStatus(c) = "SKIPPED"
          /\ execution_nodes[b].container_execution_id = 0

\* how many of the sweeps i..j of the log refreshed ce
Refreshes(ce, i, j) == Cardinality({k \in i..j : sweep_log[k][1] = ce})

\* C13: over any stretch of k consecutive in-flight sweeps during which the same n
\* container executions are in flight, each of them is refreshed floor(k/n) or
\* ceil(k/n) times, and so exactly once in every window of n sweeps
C13_InFlightAging ==
    \A i \in 1..Len(sweep_log) : \A j \in i..Len(sweep_log) :
       (\A k \in i..j : sweep_log[k][2] = sweep_log[i][2]) =>
          \A ce \in sweep_log[i][2] :
             Refreshes(ce, i, j) \in
                { (j - i + 1) \div Cardinality(sweep_log[i][2]),
                  (j - i + Cardinality(sweep_log[i][2])) \div Cardinality(sweep_log[i][2]) }
\* three container executions stayed in flight over two full rounds of sweeps
C13_Witness ==
    /\ Len(sweep_log) = MaxSweeps
    /\ Cardinality(sweep_log[1][2]) = 3
    /\ \A k \in 1..Len(sweep_log) : sweep_log[k][2] = sweep_log[1][2]

\* the ArtifactNodes linked to the inputs of n
LinkedInputArtifacts(n) == {l.artifact_id : l \in {l \in input_links : l.execution_id = n}}

\* C14: right after an accepted create, each container node it created is QUEUED if
\* every ArtifactNode linked to one of its inputs has ArtifactData (also when it has
\* no linked input) and WAITING_FOR_UPSTREAM otherwise
C14_InitialStatus ==
    (last_op.op = "create" /\ last_op.error = "none") =>
       \A n \in (Len(trail[1].statuses) + 1)..Len(execution_nodes) :
          IsContainerNode(n) =>
             NodeStatus(n) =
                IF \A a \in LinkedInputArtifacts(n) : artifact_nodes[a].artifact_data_id # 0
                THEN "QUEUED" ELSE "WAITING_FOR_UPSTREAM"
\* a chain A -> B -> C was compiled: A is QUEUED, B and C wait
C14_Witness ==
    /\ last_op.op = "create" /\ last_op.error = "none"
    /\ \E a \in 1..Len(execution_nodes) : \E b \in DirectDownstream(a) : \E c \in DirectDownstream(b) :
          /\ LinkedInputArtifacts(a) = {}
          /\ NodeStatus(a) = "QUEUED"
          /\ NodeStatus(b) = "WAITING_FOR_UPSTREAM" /\ NodeStatus(c) = "WAITING_FOR_UPSTREAM"

\* the status that get_graph_execution_state read for node n of the subtree rooted at
\* the child c: the first statement reads the descendants of the children, the second
\* the children themselves, and the answer is returned before anything else commits
ReadStatus(c, n) ==
    IF n = c THEN NodeStatus(n)
    ELSE IF n \in 1..Len(api_out.first_read) THEN api_out.first_read[n]
    ELSE NoStatus
\* the nodes of the subtree rooted at c that had a status when they were read
StatusBearingSubtree(c) ==
    {n \in 1..Len(execution_nodes) : c \in ParentChain(n) /\ ReadStatus(c, n) # NoStatus}

\* C15: get_graph_execution_state(id) answers, for each direct child c of id whose
\* subtree (c and its descendants) has a node with a status, the map from each such
\* status to the number of nodes of the subtree that have it, and nothing else; the
\* statuses are those that the statement reading the node found
C15_GraphExecutionState ==
    api_out.op = "get_graph_execution_state" =>
       api_out.child_execution_status_stats =
          [c \in {c \in 1..Len(execution_nodes) :
                    /\ execution_nodes[c].parent_execution_id = api_out.id
                    /\ StatusBearingSubtree(c) # {}} |->
             [st \in {ReadStatus(c, n) : n \in StatusBearingSubtree(c)} |->
                Cardinality({n \in StatusBearingSubtree(c) : ReadStatus(c, n) = st})]]
\* the answer counts two nodes below a child that is a graph, and one of them has
\* changed status between the two statements of the read
C15_Witness ==
    /\ api_out.op = "get_graph_execution_state"
    /\ \E c \in DOMAIN api_out.child_execution_status_stats :
          /\ ~IsContainerNode(c)
          /\ Cardinality(StatusBearingSubtree(c)) = 2
          /\ Cardinality(DOMAIN api_out.child_execution_status_stats[c]) = 2
          /\ \E n \in StatusBearingSubtree(c) : ReadStatus(c, n) # NodeStatus(n)

\* C16: get(id) answers input_artifacts and output_artifacts as the maps of exactly
\* the InputArtifactLinks and the OutputArtifactLinks of execution id, and raises
\* ItemNotFoundError for an id that no ExecutionNode has
C16_GetExecutionArtifacts ==
    api_out.op = "get" =>
       IF api_out.id \in 1..Len(execution_nodes)
       THEN /\ api_out.error = "none"
            /\ api_out.input_artifacts =
                  [n \in {l.input_name : l \in {l \in input_links : l.execution_id = api_out.id}} |->
                     (CHOOSE l \in input_links :
                         l.execution_id = api_out.id /\ l.input_name = n).artifact_id]
            /\ api_out.output_artifacts =
                  [n \in {l.output_name : l \in {l \in output_links : l.execution_id = api_out.id}} |->
                     (CHOOSE l \in output_links :
                         l.execution_id = api_out.id /\ l.output_name = n).artifact_id]
       ELSE api_out.error = "ItemNotFoundError"

\* C17: launch_container_task is called at most once for each ExecutionNode, the
\* ContainerExecution of a node is never replaced by another, and a node whose launch
\* raised is in SYSTEM_ERROR from the next commit of the sweep on
C17_LaunchAtMostOnce ==
    [][ /\ \A n \in DOMAIN launch_calls' :
             /\ Len(launch_calls'[n]) <= 1
             /\ ( /\ launch_calls'[n] = <<"raised">>
                  /\ ~(sweep'.pc = "launched" /\ sweep'.id = n) )
                => NodeStatus(n)' = "SYSTEM_ERROR"
        /\ \A n \in 1..Len(execution_nodes) :
             execution_nodes[n].container_execution_id # 0
             => execution_nodes'[n].container_execution_id
                   = execution_nodes[n].container_execution_id ]_vars
\* one node's launch raised, another node was launched and has its ContainerExecution,
\* and the sweeps have gone on since
C17_Witness ==
    /\ \E n \in DOMAIN launch_calls : launch_calls[n] = <<"raised">>
    /\ \E n \in DOMAIN launch_calls :
          /\ launch_calls[n] = <<"returned">>
          /\ execution_nodes[n].container_execution_id # 0
    /\ last_op.op = "in_flight"

\* C18: in every state a reader can see (before an operation, at each of its commits,
\* and after it) a node has a container_execution_status exactly when its component
\* implementation is a ContainerImplementation
C18_StatusIffContainer ==
    /\ \A n \in 1..Len(execution_nodes) : (NodeStatus(n) # NoStatus) <=> IsContainerNode(n)
    /\ \A k \in 1..Len(trail) :
          \A n \in 1..Len(trail[k].statuses) :
             (trail[k].statuses[n] # NoStatus) <=> IsContainerNode(n)
\* a graph node g consumes the output of a container that failed; skip propagation has
\* gone through g to its child, which is SKIPPED, and g still has no status
C18_Witness ==
    \E g \in 1..Len(execution_nodes) :
       /\ ~IsContainerNode(g)
       /\ NodeStatus(g) = NoStatus
       /\ \E l \in input_links, o \in output_links :
             /\ l.execution_id = g
             /\ o.artifact_id = l.artifact_id
             /\ IsContainerNode(o.execution_id)
             /\ NodeStatus(o.execution_id) \in {"FAILED", "SYSTEM_ERROR"}
       /\ \E c \in 1..Len(execution_nodes) :
             /\ execution_nodes[c].parent_execution_id = g
             /\ NodeStatus(c) = "SKIPPED"

CacheKey(n) == execution_nodes[n].container_execution_cache_key
\* C19 as stated: the cache key of a node that has left QUEUED (to WAITING_FOR_UPSTREAM,
\* PENDING, SUCCEEDED or SYSTEM_ERROR) never changes again
C19_FinalOnLeavingQueued ==
    [][\A n \in left_queued : CacheKey(n)' = CacheKey(n)]_vars
\* C19 as amended: the cache key of a node is written at most once, by the ready sweep
\* of that node in the commit that makes the node PENDING and attaches its
\* ContainerExecution, and from then on its value never changes
C19_CacheKeyWrittenOnce ==
    [][ /\ \A n \in 1..Len(execution_nodes) :
             /\ CacheKey(n) # NoKey => CacheKey(n)' = CacheKey(n)
             /\ CacheKey(n)' # CacheKey(n)
                => /\ last_op'.op = "ready" /\ last_op'.id = n
                   /\ NodeStatus(n)' = "PENDING"
                   /\ execution_nodes[n].container_execution_id = 0
        /\ \A n \in 1..Len(execution_nodes') :
             (execution_nodes'[n].container_execution_id # 0) <=> (CacheKey(n)' # NoKey) ]_vars
\* a node went from QUEUED back to WAITING_FOR_UPSTREAM without a key, was woken up
\* again and launched, got its key then, and its container has since succeeded
C19_Witness ==
    \E n \in left_queued :
       /\ CacheKey(n) # NoKey
       /\ NodeStatus(n) = "SUCCEEDED"
       /\ Cardinality({l \in input_links : l.execution_id = n}) = 2

\* C20: the artifact_data of an ArtifactNode is written at most once, from null to a
\* value when its producer succeeds, and is never replaced or cleared; no existing
\* ArtifactData row is modified; had_data_in_past never goes back to false and is true
\* of every ArtifactNode that has data
C20_ArtifactDataWrittenOnce ==
    [][ /\ \A a \in 1..Len(artifact_nodes) :
             /\ artifact_nodes[a].artifact_data_id # 0
                => artifact_nodes'[a].artifact_data_id = artifact_nodes[a].artifact_data_id
             /\ artifact_nodes'[a].artifact_data_id # artifact_nodes[a].artifact_data_id
                => /\ artifact_nodes[a].producer_execution_id # 0
                   /\ NodeStatus(artifact_nodes[a].producer_execution_id)' = "SUCCEEDED"
             /\ artifact_nodes[a].had_data_in_past => artifact_nodes'[a].had_data_in_past
        /\ \A a \in 1..Len(artifact_nodes') :
             artifact_nodes'[a].artifact_data_id # 0 => artifact_nodes'[a].had_data_in_past
        /\ \A i \in 1..Len(artifact_data) : artifact_data'[i] = artifact_data[i]
        /\ \A k \in 1..(Len(trail') - 1) : trail'[k].with_data \subseteq trail'[k + 1].with_data
      ]_vars
\* a constant artifact and a produced artifact both have data, and a consumer of the
\* produced artifact has run to its end since the data was written
C20_Witness ==
    /\ \E a \in 1..Len(artifact_nodes) :
          artifact_nodes[a].producer_execution_id = 0 /\ artifact_nodes[a].artifact_data_id # 0
    /\ \E b \in 1..Len(artifact_nodes), l \in input_links :
          /\ artifact_nodes[b].producer_execution_id # 0
          /\ artifact_nodes[b].artifact_data_id # 0
          /\ l.artifact_id = b
          /\ NodeStatus(l.execution_id) \in {"SUCCEEDED", "FAILED"}

\* C21: every ArtifactData row that has a value has total_size equal to the number of
\* bytes of the UTF-8 encoding of the value, and is not a directory
C21_TotalSizeIsUtf8Length ==
    \A i \in 1..Len(artifact_data) :
       artifact_data[i].value # NoneStr
       => /\ artifact_data[i].total_size = Len(Utf8(artifact_data[i].value[1]))
          /\ ~artifact_data[i].is_dir

\* the step is the first segment of the ready sweep of node n: the input check, and
\* for a node with all its inputs the call of the launcher (the commit that records
\* the container is a later segment)
IsReadySweepOf(n) ==
    /\ NodeStatus(n) \in ReadyStatuses
    /\ last_op'.op \in {"ready", "ready_running"} /\ last_op'.id = n
InputLacksData(n) ==
    \E l \in input_links :
       l.execution_id = n /\ artifact_nodes[l.artifact_id].artifact_data_id = 0
\* C22: the ready sweep calls launch_container_task for a node only when every
\* InputArtifactLink of the node points to an ArtifactNode with data; when an input has
\* no data the sweep makes the node WAITING_FOR_UPSTREAM in its only commit, does not
\* call the launcher, creates no ContainerExecution and changes no other node
C22_LaunchOnlyWithAllInputs ==
    [][\A n \in 1..Len(execution_nodes) :
          IsReadySweepOf(n)
          => /\ launch_calls' # launch_calls => ~InputLacksData(n)
             /\ InputLacksData(n)
                => /\ NodeStatus(n)' = "WAITING_FOR_UPSTREAM"
                   /\ last_op'.op = "ready" /\ Len(trail') = 2
                   /\ launch_calls' = launch_calls
                   /\ ~last_op'.launched
                   /\ containers' = containers
                   /\ container_executions' = container_executions
                   /\ execution_nodes' =
                         [execution_nodes EXCEPT ![n].container_execution_status =
                                                    "WAITING_FOR_UPSTREAM"]
                   /\ artifact_nodes' = artifact_nodes /\ artifact_data' = artifact_data
      ]_vars
\* the ready sweep has just sent a QUEUED node with two inputs, one of them with data,
\* back to WAITING_FOR_UPSTREAM, after the launcher was called for other nodes
C22_Witness ==
    /\ last_op.op = "ready" /\ ~last_op.launched
    /\ trail[1].statuses[last_op.id] = "QUEUED"
    /\ NodeStatus(last_op.id) = "WAITING_FOR_UPSTREAM"
    /\ \E l1, l2 \in input_links :
          /\ l1.execution_id = last_op.id /\ l2.execution_id = last_op.id
          /\ artifact_nodes[l1.artifact_id].artifact_data_id # 0
          /\ artifact_nodes[l2.artifact_id].artifact_data_id = 0
    /\ DOMAIN launch_calls # {}

\* the nodes that the commit from snapshot k to snapshot k + 1 of the trail made SUCCEEDED
NewlySucceeded(k) ==
    {e \in 1..Len(trail[k].statuses) :
        trail[k].statuses[e] # "SUCCEEDED" /\ trail[k + 1].statuses[e] = "SUCCEEDED"}
\* C23: in the commit that makes execution E SUCCEEDED, every node with an
\* InputArtifactLink to an output artifact of E that is WAITING_FOR_UPSTREAM becomes
\* QUEUED, and every other node except E keeps its status
C23_WakeUp ==
    \A k \in 1..(Len(trail) - 1) :
       NewlySucceeded(k) # {}
       => \A m \in (1..Len(trail[k].statuses)) \ NewlySucceeded(k) :
             trail[k + 1].statuses[m] =
                IF /\ \E e \in NewlySucceeded(k) : m \in DirectDownstream(e)
                   /\ trail[k].statuses[m] = "WAITING_FOR_UPSTREAM"
                THEN "QUEUED" ELSE trail[k].statuses[m]
\* a commit made e SUCCEEDED and its waiting consumer QUEUED, while a waiting node that
\* does not consume an output of e stayed WAITING_FOR_UPSTREAM
C23_Witness ==
    \E k \in 1..(Len(trail) - 1) :
       \E e \in NewlySucceeded(k) :
          /\ \E m \in DirectDownstream(e) :
                /\ trail[k].statuses[m] = "WAITING_FOR_UPSTREAM"
                /\ trail[k + 1].statuses[m] = "QUEUED"
          /\ \E x \in (1..Len(trail[k].statuses)) \ DirectDownstream(e) :
                /\ trail[k].statuses[x] = "WAITING_FOR_UPSTREAM"
                /\ trail[k + 1].statuses[x] = "WAITING_FOR_UPSTREAM"

\* the last operation was a ready sweep in which the processing of the picked node
\* failed: an exception reached the queue handler, or the launch handler committed
\* SYSTEM_ERROR
ReadySweepFailed ==
    /\ last_op.op = "ready"
    /\ \/ last_op.error = "raised"
       \/ \E k \in 2..Len(trail) : trail[k].statuses[last_op.id] = "SYSTEM_ERROR"
\* C25: when the processing of the node picked by the ready sweep fails, at the end of
\* the sweep the node is SYSTEM_ERROR, every node downstream of it that was
\* WAITING_FOR_UPSTREAM is SKIPPED, and the node has no ContainerExecution
C25_ReadySweepFailure ==
    ReadySweepFailed
    => /\ NodeStatus(last_op.id) = "SYSTEM_ERROR"
       /\ execution_nodes[last_op.id].container_execution_id = 0
       /\ \A m \in ReachableDownstream(last_op.id) :
             trail[1].statuses[m] = "WAITING_FOR_UPSTREAM" => NodeStatus(m) = "SKIPPED"

\* the last operation was an in-flight sweep in which an exception was raised
InFlightSweepRaised ==
    last_op.op = "in_flight" /\ last_op.error \in {"raised", "handled"}
NodesOfContainerExecution(ce) ==
    {n \in 1..Len(execution_nodes) : execution_nodes[n].container_execution_id = ce}
\* C26: when the in-flight sweep of a container execution raises, at the end of the
\* sweep the ContainerExecution and every ExecutionNode that references it are
\* SYSTEM_ERROR, every node downstream of them that was WAITING_FOR_UPSTREAM is
\* SKIPPED, and no output artifact of these nodes has data, at the end or at any
\* commit of the sweep
C26_InFlightSweepFailure ==
    InFlightSweepRaised
    => /\ container_executions[last_op.id].status = "SYSTEM_ERROR"
       /\ NodesOfContainerExecution(last_op.id) # {}
       /\ \A n \in NodesOfContainerExecution(last_op.id) :
             /\ NodeStatus(n) = "SYSTEM_ERROR"
             /\ \A m \in ReachableDownstream(n) :
                   trail[1].statuses[m] = "WAITING_FOR_UPSTREAM" => NodeStatus(m) = "SKIPPED"
             /\ \A o \in output_links :
                   o.execution_id = n
                   => /\ artifact_nodes[o.artifact_id].artifact_data_id = 0
                      /\ \A k \in 1..Len(trail) : o.artifact_id \notin trail[k].with_data
\* the launcher reported SUCCEEDED, the sweep raised while finalizing, and the
\* consumers of the node are SKIPPED
C26_Witness ==
    /\ InFlightSweepRaised
    /\ containers[container_executions[last_op.id].launcher_data.id] = "SUCCEEDED"
    /\ \E n \in NodesOfContainerExecution(last_op.id) :
          \E m \in DirectDownstream(n) : \E x \in DirectDownstream(m) :
             /\ trail[1].statuses[m] = "WAITING_FOR_UPSTREAM" /\ NodeStatus(m) = "SKIPPED"
             /\ trail[1].statuses[x] = "WAITING_FOR_UPSTREAM" /\ NodeStatus(x) = "SKIPPED"

\* C27: when the refresh of an in-flight sweep reports RUNNING and nothing raises, after
\* the sweep the ContainerExecution and all its ExecutionNodes are RUNNING
C27_RunningIsRecorded ==
    ( /\ last_op.op = "in_flight"
      /\ last_op.refreshed = "RUNNING"
      /\ last_op.error = "none" )
    => /\ container_executions[last_op.id].status = "RUNNING"
       /\ \A n \in NodesOfContainerExecution(last_op.id) : NodeStatus(n) = "RUNNING"

AllInputsHaveData(n) ==
    \A l \in input_links :
       l.execution_id = n => artifact_nodes[l.artifact_id].artifact_data_id # 0
MissedWakeUp(n) ==
    NodeStatus(n) = "WAITING_FOR_UPSTREAM" /\ AllInputsHaveData(n)
\* C24: whenever there are container nodes that are WAITING_FOR_UPSTREAM with data on
\* all of their linked inputs, later sweeps promote them: eventually no node is
\* WAITING_FOR_UPSTREAM with data on all of its linked inputs
C24_MissedWakeUpRecovered ==
    (\E n \in 1..Len(execution_nodes) : MissedWakeUp(n))
    ~> (\A n \in 1..Len(execution_nodes) : ~MissedWakeUp(n))

\* C29: a stop of the process between two commits of a sweep does not change where the
\* nodes end: when an in-flight sweep of a ContainerExecution has ended and the status
\* that the launcher reported for it, as stored in launcher_data, is SUCCEEDED or
\* FAILED, its nodes are in that status, as they are when no sweep was interrupted
C29_RestartEqualsPause ==
    last_op.op = "in_flight"
    => \A n \in NodesOfContainerExecution(last_op.id) :
          container_executions[last_op.id].launcher_data.status \in {"SUCCEEDED", "FAILED"}
          => NodeStatus(n) = container_executions[last_op.id].launcher_data.status

\* C30: for a task map without cycles and without unknown references,
\* _toposort_tasks returns every task exactly once, each task after every task
\* whose output it consumes, and tasks that no dependency orders keep the
\* iteration order of the input map whenever the first of them is ready when
\* its turn comes (the order is a function of the iteration order alone)
PositionIn(seq, x) == CHOOSE i \in 1..Len(seq) : seq[i] = x

C30_ToposortOrder ==
    (/\ ts_out.error # "idle"
     /\ ~HasUnknownReference(ts_in)
     /\ ~HasCycle(ts_in))
    => /\ ts_out.error = "none"
       /\ Len(ts_out.sorted) = Len(ts_in)
       /\ Range(ts_out.sorted) = Keys(ts_in)
       /\ \A i, j \in 1..Len(ts_out.sorted) : i # j => ts_out.sorted[i] # ts_out.sorted[j]
       /\ \A ref \in TaskOutputReferences(ts_in) :
             PositionIn(ts_out.sorted, ref[2]) < PositionIn(ts_out.sorted, ref[1])
       /\ (TaskOutputReferences(ts_in) = {}
             => ts_out.sorted = [i \in 1..Len(ts_in) |-> ts_in[i][1]])

\* a map that lists a consumer before its producer was sorted: the returned
\* order differs from the iteration order
C30_Witness ==
    /\ ts_out.error = "none"
    /\ Len(ts_in) = MaxTasks
    /\ Cardinality(TaskOutputReferences(ts_in)) >= 2
    /\ ts_out.sorted # [i \in 1..Len(ts_in) |-> ts_in[i][1]]

-----------------------------------------------------------------------------
(* Compilation of one input on its own: every combination of optional flag,
   default and argument, for the root task, for a child of the root graph, and
   for a child that takes a graph input of the root graph *)

CompileShapes == {"root", "child", "graph_input"}
CompileDefaults == {NoneStr, Some(<<>>), Some(Str05)}
CompileArguments == {"none", "const", "empty"}

ComponentWithInput(input_spec) ==
    ContainerComponent(ContainerSpec("consumer"), <<input_spec>>, <<"out">>)
\* the arguments dict of a task for its one input
ArgumentsDict(input_name, argument) ==
    IF argument = "none" THEN <<>>
    ELSE IF argument = "const" THEN <<<<input_name, ConstantArgument(Str42)>>>>
    ELSE IF argument = "empty" THEN <<<<input_name, ConstantArgument(<<>>)>>>>
    ELSE <<<<input_name, GraphInputArgument("gin")>>>>
\* the root TaskSpec that c describes
CompileDocument(c) ==
    IF c.shape = "root"
    THEN TaskSpec(ComponentWithInput(c.input), ArgumentsDict("in", c.argument))
    ELSE IF c.shape = "child"
    THEN TaskSpec(GraphComponent(<<>>,
             <<<<"a", TaskSpec(ComponentWithInput(c.input), ArgumentsDict("in", c.argument))>>>>,
             <<>>), <<>>)
    ELSE TaskSpec(GraphComponent(<<c.graph_input>>,
             <<<<"a", TaskSpec(ComponentWithInput(c.input), ArgumentsDict("in", "graph_input"))>>>>,
             <<>>), ArgumentsDict("gin", c.graph_argument))

InitCompile ==
    /\ InitDb
    /\ ts_in = <<>> /\ ts_out = [error |-> "idle", sorted |-> <<>>, culprit |-> None]
    /\ ck_in = <<>> /\ ck_out = <<>>
    /\ sweep_log = <<>> /\ api_out = ApiIdle
    /\ \E shape \in CompileShapes, optional \in BOOLEAN, default \in CompileDefaults :
          \/ /\ shape # "graph_input"
             /\ \E argument \in CompileArguments :
                   call_in = [shape |-> shape, input |-> InputSpec("in", optional, default),
                              argument |-> argument,
                              graph_input |-> InputSpec("gin", TRUE, NoneStr),
                              graph_argument |-> "none"]
          \/ /\ shape = "graph_input"
             /\ \E goptional \in BOOLEAN, gdefault \in CompileDefaults,
                   gargument \in {"none", "const"} :
                   call_in = [shape |-> shape, input |-> InputSpec("in", optional, default),
                              argument |-> "graph_input",
                              graph_input |-> InputSpec("gin", goptional, gdefault),
                              graph_argument |-> gargument]
    /\ call_out = <<>>

\* PipelineRunsApiService_Sql.create of the document
Compile ==
    /\ call_out = <<>>
    /\ \E r \in {create(Db, CompileDocument(call_in))} :
          /\ Commit(r.db)
          /\ last_op' = Op("create", r.id, r.error, FALSE)
          /\ trail' = Trail(Db, <<r.db>>)
          /\ call_out' = <<r.error>>
    /\ UNCHANGED <<containers, ts_in, ts_out, ck_in, ck_out, call_in, sweep_log, api_out,
                   launch_calls, left_queued, sweep, admin_writes>>

NextCompile == Compile
SpecCompile == InitCompile /\ [][NextCompile]_vars

\* the ExecutionNode of the task whose input the document is about
NodeOfInput ==
    IF call_in.shape = "root" THEN pipeline_runs[1].root_execution_id
    ELSE CHOOSE n \in 1..Len(execution_nodes) :
            execution_nodes[n].task_id_in_parent_execution = "a"
\* the root graph's input has an artifact: an argument, or the default of a required input
GraphInputHasArtifact(c) ==
    \/ c.graph_argument # "none"
    \/ (~c.graph_input.optional /\ c.graph_input.default # NoneStr)
\* the input ends up with no artifact
LacksArtifact(c) ==
    IF c.shape = "graph_input" THEN ~GraphInputHasArtifact(c) ELSE c.argument = "none"
RequiredWithoutDefault(input_spec, lacks) ==
    ~input_spec.optional /\ lacks /\ input_spec.default = NoneStr

\* C31: compilation fails exactly when some input is required, has no artifact (no
\* argument, or a graph input argument whose graph input is unconnected) and no
\* default; a required input with a default (the empty string included) and no
\* artifact is linked to a constant artifact holding the default, for the root task
\* as for a graph child; an optional input without argument gets no InputArtifactLink
C31_CompilationFailsIffNoDefault ==
    call_out # <<>> =>
       /\ (call_out[1] # "none") <=>
             \/ RequiredWithoutDefault(call_in.input, LacksArtifact(call_in))
             \/ /\ call_in.shape = "graph_input"
                /\ RequiredWithoutDefault(call_in.graph_input, call_in.graph_argument = "none")
       /\ call_out[1] = "none" =>
             /\ (/\ ~call_in.input.optional
                 /\ LacksArtifact(call_in)
                 /\ call_in.input.default # NoneStr)
                => \E l \in input_links :
                      /\ l.execution_id = NodeOfInput /\ l.input_name = "in"
                      /\ artifact_nodes[l.artifact_id].artifact_data_id # 0
                      /\ artifact_data[artifact_nodes[l.artifact_id].artifact_data_id].value
                            = call_in.input.default
             /\ (call_in.input.optional /\ call_in.argument = "none")
                => ~\E l \in input_links : l.execution_id = NodeOfInput

-----------------------------------------------------------------------------
(* Output finalization of one output on its own: what the storage provider holds
   at the output uri, sizes on both sides of the preload limit *)

PreloadSizes == (0..5) \cup (248..262)
\* the object at the uri: a file of total_size bytes "4" (decodable) or of bytes that
\* are not UTF-8 (text is NoneStr), or a directory
StoredObject(total_size, is_dir, decodable) ==
    [total_size |-> total_size, is_dir |-> is_dir, md5 |-> <<total_size>>,
     text |-> IF decodable /\ ~is_dir THEN Some([i \in 1..total_size |-> 52]) ELSE NoneStr]

InitPreload ==
    /\ InitDb
    /\ ts_in = <<>> /\ ts_out = [error |-> "idle", sorted |-> <<>>, culprit |-> None]
    /\ ck_in = <<>> /\ ck_out = <<>>
    /\ sweep_log = <<>> /\ api_out = ApiIdle
    /\ \E total_size \in PreloadSizes, is_dir \in BOOLEAN, decodable \in BOOLEAN :
          call_in = StoredObject(total_size, is_dir, decodable)
    /\ call_out = <<>>

\* lines 461-479 for the output "out" of execution 1
Preload ==
    /\ call_out = <<>>
    /\ call_out' = <<new_output_artifact_data(call_in,
                         generate_output_artifact_uri(DataRootUri, 1, Lookup(NameChars, "out")))>>
    /\ UNCHANGED <<dbvars, containers, last_op, trail, ts_in, ts_out, ck_in, ck_out, call_in,
                   sweep_log, api_out, launch_calls, left_queued, sweep, admin_writes>>

NextPreload == Preload
SpecPreload == InitPreload /\ [][NextPreload]_vars

\* C32: the ArtifactData of an output has value set to the decoded text when the
\* object is not a directory, is smaller than 256 bytes and decodes as UTF-8; for
\* every other output value is null and uri is set
C32_SmallOutputsAreInlined ==
    call_out # <<>> =>
       IF ~call_in.is_dir /\ call_in.total_size < 256 /\ call_in.text # NoneStr
       THEN call_out[1].value = call_in.text /\ call_out[1].value # NoneStr
       ELSE call_out[1].value = NoneStr /\ call_out[1].uri # NoUri

-----------------------------------------------------------------------------
(* The annotations of a launch (orchestrator_sql.py 282-293, 648-657). Python dicts
   are objects: heap is the sequence of the dict objects there are, an object is its
   items in insertion order, and a dict-valued item holds the id of its object *)

StrValue(s) == [kind |-> "str", str |-> s]
ListValue(l) == [kind |-> "list", list |-> l]
\* a dict as a JSON document: items is a sequence of <<key, value>>
DictValue(items) == [kind |-> "dict", items |-> items]
\* a dict-valued item of an object of the heap
DictRef(id) == [kind |-> "dict", ref |-> id]
\* Python None where a dict may be
NoneValue == [kind |-> "none"]

\* d[k] = v on the items of a dict object
SetItem(items, k, v) ==
    IF HasKey(items, k)
    THEN AsSeq([i \in 1..Len(items) |-> IF items[i][1] = k THEN <<k, v>> ELSE items[i]])
    ELSE Append(items, <<k, v>>)

\* the dict object of a document, and the objects of its dict values, added to the heap
RECURSIVE allocate(_, _)
RECURSIVE allocate_items(_, _, _, _)
allocate(h, items) ==
    Bind(allocate_items(h, items, 1, <<>>),
      LAMBDA r : [heap |-> Append(r.heap, r.items), id |-> Len(r.heap) + 1])
allocate_items(h, items, i, acc) ==
    IF i > Len(items) THEN [heap |-> h, items |-> acc]
    ELSE IF items[i][2].kind = "dict"
    THEN Bind(allocate(h, items[i][2].items),
           LAMBDA c : allocate_items(c.heap, items, i + 1,
                                     Append(acc, <<items[i][1], DictRef(c.id)>>)))
    ELSE allocate_items(h, items, i + 1, Append(acc, items[i]))

\* copy.deepcopy of the dict object o (lines 286, 289, 292): new objects at every level
RECURSIVE deepcopy(_, _)
RECURSIVE deepcopy_items(_, _, _, _)
deepcopy(h, o) ==
    Bind(deepcopy_items(h, h[o], 1, <<>>),
      LAMBDA r : [heap |-> Append(r.heap, r.items), id |-> Len(r.heap) + 1])
deepcopy_items(h, items, i, acc) ==
    IF i > Len(items) THEN [heap |-> h, items |-> acc]
    ELSE IF items[i][2].kind = "dict"
    THEN Bind(deepcopy(h, items[i][2].ref),
           LAMBDA c : deepcopy_items(c.heap, items, i + 1,
                                     Append(acc, <<items[i][1], DictRef(c.id)>>)))
    ELSE deepcopy_items(h, items, i + 1, Append(acc, items[i]))

RECURSIVE update_dict_shallow(_, _, _, _)
update_dict_shallow(h, d1, d2, i) ==
    IF i > Len(h[d2]) THEN h
    ELSE update_dict_shallow([h EXCEPT ![d1] = SetItem(@, h[d2][i][1], h[d2][i][2])],
                             d1, d2, i + 1)
\* _update_dict_recursive(d1, d2) (648-657) from the i-th item of d2 on; d1 and d2 are
\* object ids, the result is the heap after the call
RECURSIVE update_dict_recursive(_, _, _, _)
update_dict_recursive(h, d1, d2, i) ==
    IF i > Len(h[d2]) THEN h
    ELSE
      LET k == h[d2][i][1]
          v2 == h[d2][i][2]
      IN IF HasKey(h[d1], k) /\ Lookup(h[d1], k).kind = "dict" /\ v2.kind = "dict"
         THEN Bind(update_dict_recursive(h, Lookup(h[d1], k).ref, v2.ref, 1),
                LAMBDA h1 : update_dict_recursive(h1, d1, d2, i + 1))
         ELSE Bind([h EXCEPT ![d1] = SetItem(@, k, v2)],
                LAMBDA h1 : update_dict_recursive(h1, d1, d2, i + 1))

\* the document that the dict object o is in heap h
RECURSIVE document(_, _)
document(h, o) ==
    DictValue(AsSeq([i \in 1..Len(h[o]) |->
        IF h[o][i][2].kind = "dict"
        THEN <<h[o][i][1], document(h, h[o][i][2].ref)>>
        ELSE h[o][i]]))

\* `x or {}`: the object itself, or a new empty dict when x is None or empty
or_empty_dict(h, o) ==
    IF o = 0 \/ h[o] = <<>> THEN [heap |-> Append(h, <<>>), id |-> Len(h) + 1]
    ELSE [heap |-> h, id |-> o]

\* one `_update_dict_recursive(full_annotations, copy.deepcopy(x or {}))`
update_with_copy(h, full, o) ==
    Bind(or_empty_dict(h, o),
      LAMBDA e : Bind(deepcopy(e.heap, e.id),
        LAMBDA c : update_dict_recursive(c.heap, full, c.id, 1)))

\* lines 282-293 for the three sources (documents, or None); the result has the
\* annotations handed to the launcher, the three sources as they are after the
\* merge, and what _update_dict_recursive(x, x) leaves of each source
full_annotations(sources) ==
    LET allocated(h, src) == IF src = NoneValue THEN [heap |-> h, id |-> 0]
                             ELSE allocate(h, src.items)
        after(h, o) == IF o = 0 THEN NoneValue ELSE document(h, o)
        itself(h, o) == IF o = 0 THEN NoneValue
                        ELSE document(update_dict_recursive(h, o, o, 1), o)
    IN Bind(allocated(<<>>, sources[1]), LAMBDA a1 :
       Bind(allocated(a1.heap, sources[2]), LAMBDA a2 :
       Bind(allocated(a2.heap, sources[3]), LAMBDA a3 :
       Bind(Append(a3.heap, <<>>), LAMBDA h0 :
       Bind(update_with_copy(h0, Len(h0), a1.id), LAMBDA h1 :
       Bind(update_with_copy(h1, Len(h0), a2.id), LAMBDA h2 :
       Bind(update_with_copy(h2, Len(h0), a3.id), LAMBDA h3 :
          [annotations |-> document(h3, Len(h0)),
           sources |-> <<after(h3, a1.id), after(h3, a2.id), after(h3, a3.id)>>,
           with_itself |-> <<itself(h0, a1.id), itself(h0, a2.id), itself(h0, a3.id)>>])))))))

AnnotationLeaves ==
    {StrValue("1"), StrValue("2"), ListValue(<<"a">>), ListValue(<<"a", "b">>)}
AnnotationInnerDicts ==
    {DictValue(<<>>),
     DictValue(<< <<"p", StrValue("1")>> >>),
     DictValue(<< <<"p", StrValue("2")>>, <<"q", ListValue(<<"b">>)>> >>),
     DictValue(<< <<"q", ListValue(<<"a">>)>> >>),
     DictValue(<< <<"p", DictValue(<< <<"r", StrValue("1")>> >>)>> >>),
     DictValue(<< <<"p", DictValue(<< <<"s", StrValue("2")>> >>)>>, <<"q", StrValue("1")>> >>)}
\* default_task_annotations, pipeline_run.annotations and task_spec.annotations are
\* each None or a JSON object
AnnotationSources ==
    {NoneValue, DictValue(<<>>), DictValue(<< <<"y", ListValue(<<"b">>)>> >>)}
       \cup {DictValue(<< <<"x", v>> >>) : v \in AnnotationLeaves \cup AnnotationInnerDicts}
       \cup {DictValue(<< <<"y", StrValue("1")>>, <<"x", v>> >>) : v \in AnnotationInnerDicts}

InitAnnotations ==
    /\ InitDb
    /\ ts_in = <<>> /\ ts_out = [error |-> "idle", sorted |-> <<>>, culprit |-> None]
    /\ ck_in = <<>> /\ ck_out = <<>>
    /\ sweep_log = <<>> /\ api_out = ApiIdle
    /\ \E default_task_annotations \in AnnotationSources,
          pipeline_run_annotations \in AnnotationSources,
          task_spec_annotations \in AnnotationSources :
          call_in = <<default_task_annotations, pipeline_run_annotations,
                      task_spec_annotations>>
    /\ call_out = <<>>

Annotate ==
    /\ call_out = <<>>
    /\ call_out' = <<full_annotations(call_in)>>
    /\ UNCHANGED <<dbvars, containers, last_op, trail, ts_in, ts_out, ck_in, ck_out, call_in,
                   sweep_log, api_out, launch_calls, left_queued, sweep, admin_writes>>

NextAnnotations == Annotate
SpecAnnotations == InitAnnotations /\ [][NextAnnotations]_vars

\* a document as a mapping: Python compares dicts without regard to item order
RECURSIVE AsMapping(_)
AsMapping(v) ==
    IF v.kind = "none" THEN [k \in {} |-> v]
    ELSE IF v.kind = "dict"
    THEN [k \in Keys(v.items) |->
             IF Lookup(v.items, k).kind = "dict"
             THEN [kind |-> "dict", mapping |-> AsMapping(Lookup(v.items, k))]
             ELSE Lookup(v.items, k)]
    ELSE v
\* the recursive merge: where both sides have a dict the merge recurses, otherwise
\* the right-hand value wins
RECURSIVE Merged(_, _)
Merged(m1, m2) ==
    [k \in (DOMAIN m1) \cup (DOMAIN m2) |->
        IF k \notin DOMAIN m2 THEN m1[k]
        ELSE IF k \in DOMAIN m1 /\ m1[k].kind = "dict" /\ m2[k].kind = "dict"
        THEN [kind |-> "dict", mapping |-> Merged(m1[k].mapping, m2[k].mapping)]
        ELSE m2[k]]

\* C33: the annotations handed to launch_container_task are the recursive merge of
\* default_task_annotations, pipeline_run.annotations and task_spec.annotations, in
\* this order (dicts merge key by key, any other value, lists included, is replaced
\* by the right-hand one); the three sources are left as they were; merging a dict
\* with itself leaves it as it was
C33_AnnotationsAreMerged ==
    call_out # <<>> =>
       /\ AsMapping(call_out[1].annotations) =
             Merged(Merged(AsMapping(call_in[1]), AsMapping(call_in[2])),
                    AsMapping(call_in[3]))
       /\ call_out[1].sources = call_in
       /\ call_out[1].with_itself = call_in

\* a launch where the merge recursed two levels down, replaced a list by a list and
\* kept a key that only the first source has
C33_Witness ==
    /\ call_out # <<>>
    /\ call_in[1] = DictValue(<< <<"y", StrValue("1")>>,
                                 <<"x", DictValue(<< <<"p", DictValue(<< <<"r", StrValue("1")>> >>)>> >>)>> >>)
    /\ call_in[2] = DictValue(<< <<"y", ListValue(<<"b">>)>> >>)
    /\ call_in[3] = DictValue(<< <<"x", DictValue(<< <<"p", DictValue(<< <<"s", StrValue("2")>> >>)>>,
                                                     <<"q", StrValue("1")>> >>)>> >>)
    /\ call_out[1].annotations =
          DictValue(<< <<"y", ListValue(<<"b">>)>>,
                       <<"x", DictValue(<< <<"p", DictValue(<< <<"r", StrValue("1")>>,
                                                               <<"s", StrValue("2")>> >>)>>,
                                           <<"q", StrValue("1")>> >>)>> >>)

-----------------------------------------------------------------------------
(* Runs whose containers succeed or fail: run_loop goes on sweeping, the launcher
   returns a PENDING or RUNNING container, no call raises, and every container ends
   SUCCEEDED or FAILED *)

NextTermination ==
    \/ \E t \in {Join, Chain} : Create(t)
    \/ LiveReadySweep
    \/ ReadySweepNext
    \/ LiveInFlightSweep
    \/ LiveInFlightSweepNext
    \/ RestartContainerProgress
SpecTermination == Init /\ [][NextTermination]_vars

\* nothing is left for the two queues: the ready queue selects UNINITIALIZED and
\* QUEUED nodes (lines 71-85), the in-flight queue PENDING and RUNNING
\* ContainerExecutions (105-118), and no call is in progress
QueuesAreEmpty ==
    /\ sweep.pc = "idle"
    /\ \A n \in 1..Len(execution_nodes) : NodeStatus(n) \notin ReadyStatuses
    /\ \A ce \in 1..Len(container_executions) :
          container_executions[ce].status \notin InFlightStatuses

\* C34: a run terminates: when every launched container has reported SUCCEEDED or
\* FAILED and the sweeps have nothing left to do, every container node is in a
\* terminal status; none is left in WAITING_FOR_UPSTREAM or QUEUED, a node woken by
\* one producer whose other producer then failed included
C34_RunTerminates ==
    QueuesAreEmpty
    => \A n \in 1..Len(execution_nodes) :
          IsContainerNode(n) => NodeStatus(n) \in TerminalStatuses

-----------------------------------------------------------------------------
(* Skipping: a failed node feeds a nested graph whose inner producer does not use
   the graph's input *)

\* p feeds the input of the graph g; g's output comes from its child q, which takes
\* no input; x consumes g's output
GraphBypass ==
    TaskSpec(GraphComponent(<<>>,
        << <<"p", TaskSpec(Producer, <<>>)>>,
           <<"g", TaskSpec(GraphComponent(<<InputSpec("in", FALSE, NoneStr)>>,
                      <<<<"q", TaskSpec(Producer, <<>>)>>>>,
                      <<<<"out", TaskOutputArgument("q", "out")>>>>),
                      <<<<"in", TaskOutputArgument("p", "out")>>>>)>>,
           <<"x", TaskSpec(Consumer, <<<<"in", TaskOutputArgument("g", "out")>>>>)>> >>,
        <<>>), <<>>)

NextSkipping ==
    \/ \E t \in {GraphBypass, Chain, GraphDownstream} : Create(t)
    \/ LiveReadySweep
    \/ ReadySweepNext
    \/ LiveInFlightSweep
    \/ LiveInFlightSweepNext
    \/ RestartContainerProgress
SpecSkipping == Init /\ [][NextSkipping]_vars

\* the container nodes that produce the artifacts linked to the inputs of n
DirectProducers(n) ==
    {artifact_nodes[l.artifact_id].producer_execution_id :
        l \in {l \in input_links : l.execution_id = n}} \ {0}
RECURSIVE ProducersWithin(_, _)
ProducersWithin(S, k) ==
    IF k = 0 THEN S
    ELSE ProducersWithin(S \cup UNION {DirectProducers(m) : m \in S}, k - 1)
\* the producers n depends on, directly or through the inputs of its producers
AllProducers(n) == ProducersWithin(DirectProducers(n), Len(execution_nodes))

\* C35: a node is SKIPPED only if a container node that produces an artifact it
\* depends on, directly or through the InputArtifactLinks of its producers, ended
\* FAILED, SYSTEM_ERROR or SKIPPED; a node whose producers can all still succeed is
\* not skipped
C35_SkippedOnlyBehindFailure ==
    \A n \in 1..Len(execution_nodes) :
       NodeStatus(n) = "SKIPPED"
       => \E m \in AllProducers(n) : NodeStatus(m) \in {"FAILED", "SYSTEM_ERROR", "SKIPPED"}

\* C36 as stated: in every committed state, those between the commits of one sweep
\* included, an ExecutionNode with a container_execution_id has the status of its
\* ContainerExecution, so no node is PENDING or RUNNING while its ContainerExecution
\* is outside PENDING and RUNNING
C36_InEveryCommittedState ==
    \A n \in 1..Len(execution_nodes) :
       execution_nodes[n].container_execution_id # 0
       => NodeStatus(n) = container_executions[execution_nodes[n].container_execution_id].status
\* C36, amended: in the state that an operation leaves when it has made all of its
\* commits, an ExecutionNode with a container_execution_id has the status of its
\* ContainerExecution (the error handlers of the in-flight sweep commit the
\* ContainerExecution's SYSTEM_ERROR before that of its nodes)
C36_NodeStatusIsContainerExecutionStatus ==
    sweep.pc = "idle"
    => \A n \in 1..Len(execution_nodes) :
          execution_nodes[n].container_execution_id # 0
          => NodeStatus(n) =
                container_executions[execution_nodes[n].container_execution_id].status
\* an in-flight sweep found the container FAILED, and one raised: the nodes follow
\* their ContainerExecution
C36_Witness ==
    /\ last_op.op = "in_flight"
    /\ \E n \in 1..Len(execution_nodes) :
          /\ execution_nodes[n].container_execution_id # 0
          /\ n <= Len(trail[1].statuses) /\ trail[1].statuses[n] \in InFlightStatuses
          /\ NodeStatus(n) = "FAILED"
          /\ container_executions[execution_nodes[n].container_execution_id].status = "FAILED"
    /\ \E n \in 1..Len(execution_nodes) :
          /\ execution_nodes[n].container_execution_id # 0
          /\ NodeStatus(n) = "SYSTEM_ERROR"
          /\ container_executions[execution_nodes[n].container_execution_id].status
                = "SYSTEM_ERROR"

\* C37: the ready sweep of a QUEUED container node whose inputs all have data finds
\* the node's PipelineRun and launches it: the node is left PENDING or RUNNING with a
\* ContainerExecution, when the node is the root task of its run as when it is
\* nested in a graph
C37_RootContainerIsLaunched ==
    \A n \in 1..Len(execution_nodes) :
       (/\ last_op.op = "ready" /\ last_op.id = n
        /\ trail[1].statuses[n] = "QUEUED"
        /\ AllInputsHaveData(n))
       => /\ last_op.launched
          /\ NodeStatus(n) \in InFlightStatuses
          /\ execution_nodes[n].container_execution_id # 0

\* task t consumes, directly or through other tasks, its own output
IsOnCycle(tasks, t) ==
    \E n \in 1..Len(tasks) :
       \E p \in [1..(n + 1) -> Keys(tasks)] :
          /\ p[1] = t /\ p[n + 1] = t
          /\ \A i \in 1..n : <<p[i + 1], p[i]>> \in TaskOutputReferences(tasks)

\* C38: when _toposort_tasks rejects a task map because of a dependency cycle, the
\* task that the error names is on a dependency cycle, not merely downstream of one
C38_NamedTaskIsOnCycle ==
    ts_out.error = "ValueError" => IsOnCycle(ts_in, ts_out.culprit)

-----------------------------------------------------------------------------
(* The URIs of one launch (orchestrator_sql.py 224-280): a component with two
   distinct names, as outputs and as inputs *)

\* names have at most this many characters
MaxNameLen == 3
\* "a", "A", "-", "_"
NameAlphabet == {97, 65, 45, 95}
Names == UNION {[1..n -> NameAlphabet] : n \in 1..MaxNameLen}

InitUris ==
    /\ InitDb
    /\ ts_in = <<>> /\ ts_out = [error |-> "idle", sorted |-> <<>>, culprit |-> None]
    /\ ck_in = <<>> /\ ck_out = <<>>
    /\ sweep_log = <<>> /\ api_out = ApiIdle
    /\ \E name1 \in Names, name2 \in Names :
          /\ name1 # name2
          /\ call_in = <<name1, name2>>
    /\ call_out = <<>>

\* lines 258-280 for the launch of execution 1: the output uri and the staging uri
\* of each name
GenerateUris ==
    /\ call_out = <<>>
    /\ call_out' =
          [output_artifact_uris |->
              AsSeq([i \in 1..Len(call_in) |->
                        generate_output_artifact_uri(DataRootUri, 1, call_in[i])]),
           staging_uris |->
              AsSeq([i \in 1..Len(call_in) |->
                        generate_input_artifact_uri(DataRootUri, 1, call_in[i])])]
    /\ UNCHANGED <<dbvars, containers, last_op, trail, ts_in, ts_out, ck_in, ck_out, call_in,
                   sweep_log, api_out, launch_calls, left_queued, sweep, admin_writes>>

NextUris == GenerateUris
SpecUris == InitUris /\ [][NextUris]_vars

\* C39: within one launch distinct output names get distinct output URIs and
\* distinct input names get distinct staging URIs
C39_UrisAreInjective ==
    call_out # <<>> =>
       \A i, j \in 1..Len(call_in) :
          call_in[i] # call_in[j]
          => /\ call_out.output_artifact_uris[i] # call_out.output_artifact_uris[j]
             /\ call_out.staging_uris[i] # call_out.staging_uris[j]

-----------------------------------------------------------------------------
(* The type of an input or an output (api_server_sql.py 151-166, 190-201, 581-589,
   674-684): a root container task with one typed input or one typed output.
   Type specs are JSON documents: None, a string, a list, a dict *)

\* list[i] of Python, i counted from 0
ListItem(list, i) ==
    IF i < Len(list) THEN [error |-> "none", item |-> list[i + 1]]
    ELSE [error |-> "IndexError", item |-> NoneValue]

\* _split_type_spec (lines 151-166): [error, type_name, type_properties]
SplitResult(error, type_name, type_properties) ==
    [error |-> error, type_name |-> type_name, type_properties |-> type_properties]
_split_type_spec(type_spec) ==
    IF type_spec.kind = "none" THEN SplitResult("none", NoneValue, NoneValue)
    ELSE IF type_spec.kind = "str" THEN SplitResult("none", type_spec, NoneValue)
    ELSE IF type_spec.kind = "dict" /\ Len(type_spec.items) = 1
    THEN Bind(ListItem(type_spec.items, 1), LAMBDA kv :
            IF kv.error # "none" THEN SplitResult(kv.error, NoneValue, NoneValue)
            ELSE IF kv.item[2].kind = "dict"
            THEN SplitResult("none", StrValue(kv.item[1]), kv.item[2])
            ELSE SplitResult("TypeError", NoneValue, NoneValue))
    ELSE SplitResult("TypeError", NoneValue, NoneValue)

TypeProperties ==
    {DictValue(<<>>), DictValue(<<<<"format", StrValue("csv")>>>>),
     DictValue(<<<<"schema", DictValue(<<<<"columns", ListValue(<<"a", "b">>)>>>>)>>>>)}
TypeNames == {"String", "Table"}
TypeSpecs ==
    {NoneValue, ListValue(<<>>), ListValue(<<"String">>), DictValue(<<>>)}
    \cup {StrValue(n) : n \in TypeNames}
    \cup {DictValue(<<<<n, p>>>>) : n \in TypeNames, p \in TypeProperties}
    \cup {DictValue(<<<<n, StrValue("csv")>>>>) : n \in TypeNames}
    \cup {DictValue(<<<<n, ListValue(<<>>)>>>>) : n \in TypeNames}
    \cup {DictValue(<<<<"Table", p>>, <<"String", DictValue(<<>>)>>>>) : p \in TypeProperties}

\* where the type is: on the input "in" or on the output "out" of the root component;
\* argument is the root task's argument for "in"
InitTypes ==
    /\ InitDb
    /\ ts_in = <<>> /\ ts_out = [error |-> "idle", sorted |-> <<>>, culprit |-> None]
    /\ ck_in = <<>> /\ ck_out = <<>>
    /\ sweep_log = <<>> /\ api_out = ApiIdle
    /\ \E type_spec \in TypeSpecs, where \in {"input", "output"},
          argument \in {"none", "const"} :
          call_in = [type_spec |-> type_spec, where |-> where, argument |-> argument]
    /\ call_out = <<>>

\* the calls of _split_type_spec that create makes for the typed name: line 194 for
\* the constant argument of a root input (581-589), lines 680-681 for the output of
\* a root container component
SplitIsReached(c) == c.where = "output" \/ c.argument # "none"
TypedDocument(c) ==
    TaskSpec(ContainerComponent(ContainerSpec("consumer"),
                                <<InputSpec("in", TRUE, NoneStr)>>, <<"out">>),
             ArgumentsDict("in", c.argument))

\* PipelineRunsApiService_Sql.create of the document; an exception of
\* _split_type_spec leaves create before anything is committed
CompileTyped ==
    /\ call_out = <<>>
    /\ \E split \in {IF SplitIsReached(call_in) THEN _split_type_spec(call_in.type_spec)
                     ELSE SplitResult("none", NoneValue, NoneValue)} :
          IF split.error # "none"
          THEN /\ last_op' = Op("create", 0, split.error, FALSE)
               /\ call_out' = <<split>>
               /\ UNCHANGED <<dbvars, trail>>
          ELSE \E r \in {create(Db, TypedDocument(call_in))} :
                  /\ Commit(r.db)
                  /\ last_op' = Op("create", r.id, r.error, FALSE)
                  /\ trail' = Trail(Db, <<r.db>>)
                  /\ call_out' = <<[split EXCEPT !.error = r.error]>>
    /\ UNCHANGED <<containers, ts_in, ts_out, ck_in, ck_out, call_in, sweep_log, api_out,
                   launch_calls, left_queued, sweep, admin_writes>>

NextTypes == CompileTyped
SpecTypes == InitTypes /\ [][NextTypes]_vars

IsSingleEntryMapping(type_spec) ==
    /\ type_spec.kind = "dict"
    /\ Len(type_spec.items) = 1
    /\ type_spec.items[1][2].kind = "dict"

\* C40: a missing type gives (None, None), a string type (name, None), a mapping
\* with exactly one entry name -> properties gives (name, properties) and the
\* compilation succeeds with these on the ArtifactNode; only other shapes raise
\* TypeError
C40_TypeSpecIsSplit ==
    (call_out # <<>> /\ SplitIsReached(call_in)) =>
       LET t == call_in.type_spec
           r == call_out[1]
       IN IF t.kind = "none"
          THEN r = SplitResult("none", NoneValue, NoneValue)
          ELSE IF t.kind = "str"
          THEN r = SplitResult("none", t, NoneValue)
          ELSE IF IsSingleEntryMapping(t)
          THEN r = SplitResult("none", StrValue(t.items[1][1]), t.items[1][2])
          ELSE r.error = "TypeError"

=============================================================================
